---- MODULE Spec2Model ----
(***************************************************************************)
(* taskconf: hierarchical configuration presets.                           *)
(*                                                                         *)
(* A JSON tree is a node record: a leaf carries a value, a dict carries a  *)
(* function from keys to nodes.  An exception is a node whose kind is the  *)
(* exception's name, so that an operator either returns a tree or raises.  *)
(* A '/'-delimited name is the sequence of its segments ("a/b" is          *)
(* <<"a","b">>); a prefix, which always ends in '/', is the sequence of    *)
(* the segments before each '/'.                                           *)
(***************************************************************************)
EXTENDS Integers, Sequences, FiniteSets, TLC

VARIABLES
    mLayers,    \* merge run: the layers handed to ConfigurationBlock, base layers first
    mResult,    \* merge run: whether the constructor has run, and the merged_config
                \* it built or the exception it raised
    cfgs,       \* the Configuration objects the driver holds, by variable name
    datas,      \* the raw documents (the dicts behind Configuration.data), by identity
    blocks,     \* the ConfigurationBlock objects, by identity
    last,       \* the call made last: its receiver, arguments and outcome
    mgr,        \* the ConfigurationManager: the documents under its path, its indexes
    preset,     \* a Preset of the earlier generation
    logfile,    \* the lines written to the log file, oldest first
    logging     \* the Logger objects, their mutex, the file's buffer and the calls
                \* of log under way, by caller

vars == <<mLayers, mResult, cfgs, datas, blocks, last, mgr, preset, logfile, logging>>

mergeVars == <<mLayers, mResult>>

objVars == <<cfgs, datas, blocks, last>>

\* all but the objects
restVars == <<mLayers, mResult, mgr, preset, logfile, logging>>

---------------------------------------------------------------------------
(* JSON trees *)

EmptyMap == [k \in {} |-> 0]

Leaf(v) == [kind |-> "leaf", val |-> v, sub |-> EmptyMap]

Dict(f) == [kind |-> "dict", val |-> 0, sub |-> f]

Raise(e) == [kind |-> e, val |-> 0, sub |-> EmptyMap]

IsDict(n) == n.kind = "dict"

\* a str that spells the number v, as "12" does
Numeral(v) == [kind |-> "numeral", val |-> v, sub |-> EmptyMap]

\* a str that spells no number, as "abc" does; v tells the texts apart
Text(v) == [kind |-> "text", val |-> v, sub |-> EmptyMap]

\* a list; v tells the lists apart
List(v) == [kind |-> "list", val |-> v, sub |-> EmptyMap]

\* the kinds of the values that are no Mapping: numbers ("leaf"), strs and lists
LeafKinds == {"leaf", "numeral", "text", "list", "str"}

IsLeaf(n) == n.kind \in LeafKinds

IsErr(n) == n.kind \notin LeafKinds \cup {"dict"}

EmptyDict == Dict(EmptyMap)

Has(d, k) == k \in DOMAIN d.sub

\* dict.get(k, {})
GetOrEmpty(d, k) == IF Has(d, k) THEN d.sub[k] ELSE EmptyDict

\* the one-entry dict {k: n}
Single(k, n) == Dict([x \in {k} |-> n])

---------------------------------------------------------------------------
(* Bounds and input sets *)

MaxVal == 2

Vals == 1..MaxVal

Keys == {"a", "b"}

SubKeys == {"n"}

Leaves == {Leaf(v) : v \in Vals}

\* dicts over the keys K whose entries are drawn from the nodes N
DictsOver(K, N) == UNION {{Dict(f) : f \in [S -> N]} : S \in SUBSET K}

\* blocks of leaves, the empty block included
SubTrees == DictsOver(SubKeys, Leaves)

\* config trees: each key a leaf or a nested block
Trees == DictsOver(Keys, Leaves \cup SubTrees)

---------------------------------------------------------------------------
(* ConfigurationBlock: merge *)

\* a str with template tokens, as the sequence of its pieces: a piece is a
\* token "$T<i>$" or a text without tokens
Str(pieces) == [kind |-> "str", val |-> 0, sub |-> pieces]

\* the kinds of the values whose type is str
StrKinds == {"numeral", "text", "str"}

\* "$T" + str(i) + "$"
Template(i) == "$T" \o ToString(i) \o "$"

\* str(arg) of a positional argument, a str or a number
ArgText(arg) == IF arg.kind = "str" THEN arg.sub ELSE <<ToString(arg.val)>>

\* JSON null
JsonNull == [kind |-> "null", val |-> 0, sub |-> EmptyMap]

\* the texts the runs use that are JSON documents, with their values
JsonTexts ==
    ("5" :> Leaf(5)) @@ ("7" :> Leaf(7)) @@ ("null" :> JsonNull) @@
    ("{\"n\": 1}" :> Single("n", Leaf(1))) @@ ("\"s\"" :> Str(<<"s">>))

\* json.loads(text): the value, or ValueError
json_loads(text) ==
    IF Len(text) = 1 /\ text[1] \in DOMAIN JsonTexts THEN JsonTexts[text[1]]
    ELSE Raise("ValueError")

\* pieces.replace(template, arg)
RECURSIVE Replace(_, _, _)
Replace(pieces, template, arg) ==
    IF pieces = <<>> THEN <<>>
    ELSE (IF Head(pieces) = template THEN arg ELSE <<Head(pieces)>>)
         \o Replace(Tail(pieces), template, arg)

\* one round of the loop over the arguments, for args[i]; value is what d[k]
\* holds by then: a value that is no str any more has no replace (AttributeError),
\* and replace takes no argument that is not a str (TypeError)
SubstituteArg(value, i, arg) ==
    LET json_value == json_loads(ArgText(arg))
        whole == value.kind = "str" /\ value.sub = <<Template(i)>>
    IN IF IsErr(value) THEN value
       ELSE IF whole /\ json_value.kind \notin {"ValueError", "null"} THEN json_value
       ELSE IF value.kind \notin StrKinds THEN Raise("AttributeError")
       ELSE IF arg.kind # "str" THEN Raise("TypeError")
       ELSE IF value.kind = "str" THEN Str(Replace(value.sub, Template(i), arg.sub))
       ELSE value

\* the loop over range(len(args)), from round i on
RECURSIVE SubstituteFrom(_, _, _)
SubstituteFrom(value, args, i) ==
    IF i >= Len(args) THEN value
    ELSE SubstituteFrom(SubstituteArg(value, i, args[i + 1]), args, i + 1)

\* the template tokens are replaced in the leaves whose type is str, once per
\* positional argument
Substitute(v, args) ==
    IF v.kind \in StrKinds THEN SubstituteFrom(v, args, 0) ELSE v

\* d is a leaf and u has items: d.get(k, {}) for a nested item is an
\* AttributeError, d[k] = v for a leaf item a TypeError (in a layer that has
\* both, the first item decides; the runs draw no such layer)
IntoLeaf(u) ==
    IF \A k \in DOMAIN u.sub : IsDict(u.sub[k]) THEN Raise("AttributeError")
    ELSE Raise("TypeError")

RECURSIVE _deep_update(_, _, _)
_deep_update(d, u, args) ==
    IF DOMAIN u.sub = {} THEN d
    ELSE IF ~IsDict(d) THEN IntoLeaf(u)
    ELSE LET new(k) == IF IsDict(u.sub[k])
                       THEN _deep_update(GetOrEmpty(d, k), u.sub[k], args)
                       ELSE Substitute(u.sub[k], args)
             bad == {k \in DOMAIN u.sub : IsErr(new(k))}
         IN IF bad # {} THEN new(CHOOSE k \in bad : TRUE)
            ELSE Dict([k \in DOMAIN d.sub \cup DOMAIN u.sub |->
                         IF k \in DOMAIN u.sub THEN new(k) ELSE d.sub[k]])

\* a base layer is [tree, args]; the fold of _merge_config over the base layers
RECURSIVE MergeBases(_, _)
MergeBases(merged, base_configs) ==
    IF base_configs = <<>> \/ IsErr(merged) THEN merged
    ELSE MergeBases(_deep_update(merged, Head(base_configs).tree, Head(base_configs).args),
                    Tail(base_configs))

\* a merge that loses the base layers
_merge_config_own_only(config, base_configs) == _deep_update(EmptyDict, config, <<>>)

\* a merge that folds the base layers last to first
_merge_config_reversed(config, base_configs) ==
    LET merged == MergeBases(EmptyDict,
                             [i \in DOMAIN base_configs |->
                                base_configs[Len(base_configs) + 1 - i]])
    IN IF IsErr(merged) THEN merged ELSE _deep_update(merged, config, <<>>)

_merge_config(config, base_configs) ==
    LET merged == MergeBases(EmptyDict, base_configs)
    IN IF IsErr(merged) THEN merged ELSE _deep_update(merged, config, <<>>)

Layer(tree) == [tree |-> tree, args |-> <<>>]

---------------------------------------------------------------------------
(* ConfigurationBlock: timesteps and lookup *)

MaxTimestep == 2

Timesteps == 0..MaxTimestep

\* str(timestep)
TimestepKey(t) == ToString(t)

TimestepKeys == {TimestepKey(t) : t \in Timesteps}

\* int(key), for a key that is str(t)
TimestepOf(k) == CHOOSE t \in Timesteps : TimestepKey(t) = k

all_timesteps(merged_config) == {TimestepOf(k) : k \in DOMAIN merged_config.sub}

\* list.sort(reverse=True)
RECURSIVE SortDescending(_)
SortDescending(S) ==
    IF S = {} THEN <<>>
    ELSE LET m == CHOOSE x \in S : \A y \in S : y <= x
         IN <<m>> \o SortDescending(S \ {m})

\* every timestep, the cursor ignored
valid_timesteps_any(merged_config, current_timestep) ==
    SortDescending(all_timesteps(merged_config))

valid_timesteps(merged_config, current_timestep) ==
    SortDescending({t \in all_timesteps(merged_config) : t <= current_timestep})

RECURSIVE _get_value_from_block(_, _)
_get_value_from_block(name, block) ==
    IF Len(name) > 1
    THEN IF Has(block, Head(name)) /\ IsDict(block.sub[Head(name)])
         THEN _get_value_from_block(Tail(name), block.sub[Head(name)])
         ELSE Raise("NotFoundError")
    ELSE IF Has(block, Head(name)) THEN block.sub[Head(name)]
         ELSE Raise("NotFoundError")

_get_value_at_timestep(name, timestep, merged_config) ==
    _get_value_from_block(<<TimestepKey(timestep)>> \o name, merged_config)

\* the loop of _get_value over the valid timesteps, most recent first
RECURSIVE ScanTimesteps(_, _, _)
ScanTimesteps(name, timesteps, merged_config) ==
    IF timesteps = <<>> THEN Raise("NotFoundError")
    ELSE LET value == _get_value_at_timestep(name, Head(timesteps), merged_config)
         IN IF value.kind = "NotFoundError"
            THEN ScanTimesteps(name, Tail(timesteps), merged_config)
            ELSE value

\* int() in all_timesteps raises ValueError on a top-level key that is no number
_get_value(name, current_timestep, merged_config) ==
    IF \E k \in DOMAIN merged_config.sub : k \notin TimestepKeys
    THEN Raise("ValueError")
    ELSE ScanTimesteps(name, valid_timesteps(merged_config, current_timestep),
                       merged_config)

\* None, as a fallback or a logger
None == <<>>

\* the lookup of the name alone
FallbackValue_unused(name, fallback, current_timestep, merged_config) ==
    _get_value(name, current_timestep, merged_config)

\* the value _get_value_with_fallback resolves, or the exception it raises
FallbackValue(name, fallback, current_timestep, merged_config) ==
    LET value == _get_value(name, current_timestep, merged_config)
    IN IF value.kind = "NotFoundError" /\ fallback # None
       THEN _get_value(fallback, current_timestep, merged_config)
       ELSE value

\* the lookup that answers with the value it logged last
_get_value_with_fallback_remembered(block, name, fallback, current_timestep) ==
    LET value == FallbackValue(name, fallback, current_timestep, block.merged_config)
    IN [value |-> IF block.logger # None /\ name \in DOMAIN block.printed_settings
                  THEN block.printed_settings[name] ELSE value,
        printed_settings |->
            IF IsErr(value) \/ block.logger = None THEN block.printed_settings
            ELSE [n \in DOMAIN block.printed_settings \cup {name} |->
                    IF n \in DOMAIN block.printed_settings
                    THEN block.printed_settings[n] ELSE value],
        lines |-> <<>>]

\* the lookup that logs without remembering what it logged
_get_value_with_fallback_forgetting(block, name, fallback, current_timestep) ==
    LET value == FallbackValue(name, fallback, current_timestep, block.merged_config)
    IN [value |-> value,
        printed_settings |-> block.printed_settings,
        lines |->
            IF IsErr(value) \/ block.logger = None THEN <<>>
            ELSE <<[line |-> "Using", name |-> name, old |-> value, new |-> value]>>]

\* [value, printed_settings, lines]: the value returned (or the exception), the
\* block's printed_settings afterwards and the lines handed to the logger
_get_value_with_fallback(block, name, fallback, current_timestep) ==
    LET value == FallbackValue(name, fallback, current_timestep, block.merged_config)
        known == name \in DOMAIN block.printed_settings
        logs == /\ ~IsErr(value)
                /\ block.logger # None
                /\ (~known \/ block.printed_settings[name] # value)
    IN [value |-> value,
        printed_settings |->
            IF logs
            THEN [n \in DOMAIN block.printed_settings \cup {name} |->
                    IF n = name THEN value ELSE block.printed_settings[n]]
            ELSE block.printed_settings,
        lines |->
            IF ~logs THEN <<>>
            ELSE IF ~known THEN <<[line |-> "Using", name |-> name, old |-> value, new |-> value]>>
            ELSE <<[line |-> "Switching", name |-> name,
                    old |-> block.printed_settings[name], new |-> value]>>]

\* the pieces are one text that spells a number (the runs look up no str of
\* several pieces)
SpellsNumber(pieces) == json_loads(pieces).kind = "leaf"

\* the conversion that reports what it cannot convert as not found
ToInt_not_found(value) ==
    IF IsErr(value) THEN value
    ELSE IF value.kind \in {"leaf", "numeral"} THEN Leaf(value.val)
    ELSE IF value.kind = "str" /\ SpellsNumber(value.sub) THEN json_loads(value.sub)
    ELSE Raise("NotFoundError")

\* int(value): a number converts and so does a str that spells one; any other
\* str raises ValueError, which get_int turns into TypeError, and a list or a
\* nested block raises TypeError
ToInt(value) ==
    IF IsErr(value) THEN value
    ELSE IF value.kind \in {"leaf", "numeral"} THEN Leaf(value.val)
    ELSE IF value.kind = "str" /\ SpellsNumber(value.sub) THEN json_loads(value.sub)
    ELSE Raise("TypeError")

\* float(value), with the same outcomes
ToFloat(value) ==
    IF IsErr(value) THEN value
    ELSE IF value.kind \in {"leaf", "numeral"} THEN Leaf(value.val)
    ELSE IF value.kind = "str" /\ SpellsNumber(value.sub) THEN json_loads(value.sub)
    ELSE Raise("TypeError")

\* get_list: isinstance(value, list), or TypeError
ToList(value) ==
    IF IsErr(value) THEN value
    ELSE IF value.kind = "list" THEN value
    ELSE Raise("TypeError")

\* ConfigurationBlock(config, base_configs), or the exception _merge_config raises
NewBlock(config, base_configs) ==
    [config |-> config,
     base_configs |-> base_configs,
     merged_config |-> _merge_config(config, base_configs),
     printed_settings |-> EmptyMap,
     logger |-> None]

---------------------------------------------------------------------------
(* Configuration *)

\* the driver's variables, in the order it binds them
Handles == <<"p", "q", "r">>

Bound == DOMAIN cfgs

AllBound == \A i \in DOMAIN Handles : Handles[i] \in Bound

NextHandle == Handles[CHOOSE i \in DOMAIN Handles :
                        Handles[i] \notin Bound /\ \A j \in 1..(i - 1) : Handles[j] \in Bound]

\* one base: [Configuration, args...]
BaseRef(h) == [cfg |-> h, args |-> <<>>]

\* base_configs as _build_config reads it: {iteration: [base, ...]}, in insertion order
DictBases(entries) == [form |-> "dict", entries |-> entries]

\* base_configs as ConfigurationManager passes it: [[base, args...], ...]
ListBases(refs) ==
    [form |-> "list",
     entries |-> IF refs = <<>> THEN <<>> ELSE <<[iteration |-> "", bases |-> refs]>>]

\* the default argument base_configs=[]
NoBases == ListBases(<<>>)

BlockOf(h) == blocks[cfgs[h].config]

RECURSIVE treat_dynamic(_)
treat_dynamic(h) ==
    \/ cfgs[h].dynamic
    \/ \E i \in DOMAIN cfgs[h].base_configs.entries :
         \E j \in DOMAIN cfgs[h].base_configs.entries[i].bases :
            treat_dynamic(cfgs[h].base_configs.entries[i].bases[j].cfg)

\* config["0"] of a tree without timestep "0" is a KeyError
get_merged_config(h, force_dynamic) ==
    IF ~force_dynamic /\ ~treat_dynamic(h)
    THEN IF Has(BlockOf(h).merged_config, "0")
         THEN BlockOf(h).merged_config.sub["0"]
         ELSE Raise("KeyError")
    ELSE BlockOf(h).merged_config

\* the layers _build_config appends for one iteration's bases
BaseLayers(entry) ==
    [j \in DOMAIN entry.bases |->
        [tree |-> Single(entry.iteration,
                         get_merged_config(entry.bases[j].cfg, TRUE).sub["0"]),
         args |-> entry.bases[j].args]]

RECURSIVE AllBaseLayers(_)
AllBaseLayers(entries) ==
    IF entries = <<>> THEN <<>>
    ELSE BaseLayers(Head(entries)) \o AllBaseLayers(Tail(entries))

\* [err, block]: the ConfigurationBlock built, or the exception raised:
\* indexing a list of bases by one of its items is a TypeError, a base without
\* timestep "0" a KeyError
_build_config(dynamic, base_configs, config) ==
    LET own == IF ~dynamic THEN Single("0", config) ELSE config
    IN IF base_configs.form = "list" /\ base_configs.entries # <<>>
       THEN [err |-> "TypeError", block |-> NewBlock(EmptyDict, <<>>)]
       ELSE IF \E i \in DOMAIN base_configs.entries :
                 \E j \in DOMAIN base_configs.entries[i].bases :
                    ~Has(get_merged_config(base_configs.entries[i].bases[j].cfg, TRUE), "0")
       THEN [err |-> "KeyError", block |-> NewBlock(EmptyDict, <<>>)]
       ELSE CHOOSE out \in
               {IF IsErr(block.merged_config)
                THEN [err |-> block.merged_config.kind, block |-> NewBlock(EmptyDict, <<>>)]
                ELSE [err |-> "", block |-> block]
                : block \in {NewBlock(own, AllBaseLayers(base_configs.entries))}} : TRUE

\* set_data: [err, cfg, block]. When _build_config raises, data and the dynamic
\* flag are already assigned and config is not.
set_data(self, data_id, new_data) ==
    LET flagged == [self EXCEPT !.data = data_id, !.dynamic = new_data.dynamic]
    IN CHOOSE out \in
          {[err |-> built.err,
            block |-> built.block,
            cfg |-> IF built.err # "" THEN flagged
                    ELSE [flagged EXCEPT
                            !.dynamic = Cardinality(DOMAIN built.block.merged_config.sub) > 1]]
           : built \in {_build_config(flagged.dynamic, flagged.base_configs,
                                      new_data.config)}} : TRUE

\* the threads that call log
Callers == {"t1", "t2"}

\* no Logger yet, no call of log under way
NoLogging ==
    [parent |-> EmptyMap, mutex |-> EmptyMap, buffer |-> <<>>, calls |-> 0,
     pc |-> [c \in Callers |-> "idle"],
     sink |-> [c \in Callers |-> ""],
     line |-> [c \in Callers |->
                 [line |-> "", name |-> <<>>, old |-> EmptyDict, new |-> EmptyDict]],
     raised |-> [c \in Callers |-> FALSE]]

NoObjects ==
    /\ cfgs = EmptyMap
    /\ datas = EmptyMap
    /\ blocks = EmptyMap
    /\ last = [op |-> "none", h |-> "", name |-> <<>>, fallback |-> <<>>, out |-> EmptyDict]
    /\ logfile = <<>>
    /\ logging = NoLogging

\* file=None
NoFile == ""

\* Configuration.__init__ before set_data
FreshConfiguration(base_configs) ==
    [data |-> "", base_configs |-> base_configs, config |-> "", prefix |-> <<>>,
     file |-> NoFile, try_number |-> 0, iteration_cursor |-> 0, dynamic |-> FALSE]

Call(op, h, name, fallback, out) ==
    [op |-> op, h |-> h, name |-> name, fallback |-> fallback, out |-> out]

\* h = Configuration(data, base_configs): no object when the constructor raises
NewConfiguration(data, base_configs) ==
    /\ ~AllBound
    /\ \E h \in {NextHandle} :
       \E made \in {set_data(FreshConfiguration(base_configs), h, data)} :
          IF made.err # ""
          THEN /\ last' = Call("new", h, <<>>, None, Raise(made.err))
               /\ UNCHANGED <<cfgs, datas, blocks>>
          ELSE /\ cfgs' = cfgs @@ (h :> [made.cfg EXCEPT !.config = h])
               /\ datas' = datas @@ (h :> data)
               /\ blocks' = blocks @@ (h :> made.block)
               /\ last' = Call("new", h, <<>>, None, EmptyDict)
    /\ UNCHANGED restVars

\* h.iteration_cursor = c
SetIterationCursor(h, c) ==
    /\ h \in Bound
    /\ cfgs[h].iteration_cursor # c
    /\ cfgs' = [cfgs EXCEPT ![h].iteration_cursor = c]
    /\ last' = Call("set_cursor", h, <<>>, None, EmptyDict)
    /\ UNCHANGED <<datas, blocks, restVars>>

\* Logger.log(message), on a root logger or through its children: the lines are
\* appended to the file
Logger_log(file, lines) == file \o lines

\* "-" * 50, the line a root Logger logs when it opens its file to append
Dashes == [line |-> "-", name |-> <<>>, old |-> EmptyDict, new |-> EmptyDict]

\* Logger(log_path, file_name), as the value of ConfigurationBlock.logger
TheLogger == <<"general">>

\* h.set_logger(new_logger), new_logger being None or Logger(log_path, file_name)
SetLogger(h, new_logger) ==
    /\ h \in Bound
    /\ logfile' = IF new_logger = None THEN logfile ELSE Logger_log(logfile, <<Dashes>>)
    /\ blocks' = [blocks EXCEPT ![cfgs[h].config].printed_settings = EmptyMap,
                                ![cfgs[h].config].logger = new_logger]
    /\ last' = Call("set_logger", h, <<>>, None, EmptyDict)
    /\ UNCHANGED <<cfgs, datas, mLayers, mResult, mgr, preset, logging>>

\* h.try_number = n
SetTryNumber(h, n) ==
    /\ h \in Bound
    /\ cfgs[h].try_number # n
    /\ cfgs' = [cfgs EXCEPT ![h].try_number = n]
    /\ last' = Call("set_try_number", h, <<>>, None, EmptyDict)
    /\ UNCHANGED <<datas, blocks, restVars>>

\* the value h.get_int(name, fallback) returns, or the exception it raises
get_int(h, name, fallback) ==
    ToInt(_get_value_with_fallback(BlockOf(h), cfgs[h].prefix \o name, fallback,
                                   cfgs[h].iteration_cursor).value)

\* h.get_int(name, fallback)
GetInt(h, name, fallback) ==
    /\ h \in Bound
    /\ \E got \in {_get_value_with_fallback(BlockOf(h), cfgs[h].prefix \o name, fallback,
                                              cfgs[h].iteration_cursor)} :
          /\ blocks' = [blocks EXCEPT ![cfgs[h].config].printed_settings =
                                                        got.printed_settings]
          /\ logfile' = Logger_log(logfile, got.lines)
          /\ last' = Call("get_int", h, name, fallback, ToInt(got.value))
    /\ UNCHANGED <<cfgs, datas, mLayers, mResult, mgr, preset, logging>>

\* h.get_float(name, fallback)
GetFloat(h, name, fallback) ==
    /\ h \in Bound
    /\ \E got \in {_get_value_with_fallback(BlockOf(h), cfgs[h].prefix \o name, fallback,
                                              cfgs[h].iteration_cursor)} :
          /\ blocks' = [blocks EXCEPT ![cfgs[h].config].printed_settings =
                                                        got.printed_settings]
          /\ logfile' = Logger_log(logfile, got.lines)
          /\ last' = Call("get_float", h, name, fallback, ToFloat(got.value))
    /\ UNCHANGED <<cfgs, datas, mLayers, mResult, mgr, preset, logging>>

\* h.get_list(name, fallback)
GetList(h, name, fallback) ==
    /\ h \in Bound
    /\ \E got \in {_get_value_with_fallback(BlockOf(h), cfgs[h].prefix \o name, fallback,
                                              cfgs[h].iteration_cursor)} :
          /\ blocks' = [blocks EXCEPT ![cfgs[h].config].printed_settings =
                                                        got.printed_settings]
          /\ logfile' = Logger_log(logfile, got.lines)
          /\ last' = Call("get_list", h, name, fallback, ToList(got.value))
    /\ UNCHANGED <<cfgs, datas, mLayers, mResult, mgr, preset, logging>>

\* Configuration._deep_update(d, u): the nested assignment into a leaf raises
\* before anything is assigned
RECURSIVE Configuration_deep_update(_, _)
Configuration_deep_update(d, u) ==
    IF DOMAIN u.sub = {} THEN d
    ELSE IF ~IsDict(d) THEN IntoLeaf(u)
    ELSE LET new(k) == IF IsDict(u.sub[k])
                       THEN Configuration_deep_update(GetOrEmpty(d, k), u.sub[k])
                       ELSE u.sub[k]
             bad == {k \in DOMAIN u.sub : IsErr(new(k))}
         IN IF bad # {} THEN new(CHOOSE k \in bad : TRUE)
            ELSE Dict([k \in DOMAIN d.sub \cup DOMAIN u.sub |->
                         IF k \in DOMAIN u.sub THEN new(k) ELSE d.sub[k]])

\* the identity of the ConfigurationBlock set_data creates for h: the block h
\* held is garbage once no other object refers to it
NewBlockId(h) ==
    IF \A x \in Bound \ {h} : cfgs[x].config # cfgs[h].config THEN cfgs[h].config
    ELSE CHOOSE id \in {Handles[i] : i \in DOMAIN Handles} :
            \A x \in Bound : cfgs[x].config # id

\* h.update_config(config), config naming one path: the data is updated in place
\* (every object sharing it sees the update) and set_data builds a new block for h
UpdateConfig(h, config) ==
    /\ h \in Bound
    /\ \E data_id \in {cfgs[h].data}, id \in {NewBlockId(h)} :
       \E updated \in {Configuration_deep_update(datas[data_id].config, config)} :
       \E new_data \in {[datas[data_id] EXCEPT !.config = updated]} :
       \E made \in {IF IsErr(updated) THEN [err |-> updated.kind]
                     ELSE set_data(cfgs[h], data_id, new_data)} :
          IF IsErr(updated)
          THEN /\ last' = Call("update_config", h, <<>>, None, Raise(updated.kind))
               /\ UNCHANGED <<cfgs, datas, blocks>>
          ELSE /\ datas' = [datas EXCEPT ![data_id] = new_data]
               /\ IF made.err # ""
                  THEN /\ cfgs' = [cfgs EXCEPT ![h] = made.cfg]
                       /\ blocks' = blocks
                       /\ last' = Call("update_config", h, <<>>, None, Raise(made.err))
                  ELSE /\ cfgs' = [cfgs EXCEPT ![h] = [made.cfg EXCEPT !.config = id]]
                       /\ blocks' = [b \in {cfgs'[x].config : x \in Bound} |->
                                       IF b = id THEN made.block ELSE blocks[b]]
                       /\ last' = Call("update_config", h, <<>>, None, EmptyDict)
    /\ UNCHANGED restVars

\* clone(deep=False) with the prefix extended: the block, the data and the bases
\* are shared, the cursor and the flags copied
get_with_prefix_replacing(self, prefix) == [self EXCEPT !.prefix = prefix]

\* the view that starts at cursor 0 and try 0, as a new Configuration does
get_with_prefix_rewound(self, prefix) ==
    [self EXCEPT !.prefix = self.prefix \o prefix, !.iteration_cursor = 0,
                 !.try_number = 0]

get_with_prefix(self, prefix) == [self EXCEPT !.prefix = self.prefix \o prefix]

\* v = h.get_with_prefix(prefix)
GetWithPrefix(h, prefix) ==
    /\ h \in Bound
    /\ ~AllBound
    /\ cfgs' = cfgs @@ (NextHandle :> get_with_prefix(cfgs[h], prefix))
    /\ last' = Call("get_with_prefix", NextHandle, prefix, None, EmptyDict)
    /\ UNCHANGED <<datas, blocks, restVars>>

\* ConfigurationBlock.clone(): a block without logger and with nothing recorded
\* as logged, over copies of the config, the base layers and the merged config
ConfigurationBlock_clone(block) ==
    [block EXCEPT !.printed_settings = EmptyMap, !.logger = None]

\* the clone that shares the block and the document, as clone(deep=False) does
clone_shallow(self, block_id, data_id) == self

\* clone(deep=True): the attributes are copied, the block and the document are
\* copies with identities of their own
clone(self, block_id, data_id) == [self EXCEPT !.config = block_id, !.data = data_id]

\* v = h.clone()
Clone(h) ==
    /\ h \in Bound
    /\ ~AllBound
    /\ \E block_id \in {CHOOSE id \in {Handles[i] : i \in DOMAIN Handles} :
                            id \notin DOMAIN blocks},
          data_id \in {CHOOSE id \in {Handles[i] : i \in DOMAIN Handles} :
                           id \notin DOMAIN datas} :
          /\ cfgs' = cfgs @@ (NextHandle :> clone(cfgs[h], block_id, data_id))
          /\ blocks' = blocks @@ (block_id :> ConfigurationBlock_clone(BlockOf(h)))
          /\ datas' = datas @@ (data_id :> datas[cfgs[h].data])
    /\ last' = Call("clone", NextHandle, <<>>, None, EmptyDict)
    /\ UNCHANGED restVars

\* h.set_base_configs({iteration: [base, ...]}): _build_config reads self.dynamic
\* as it stands, and the exception it may raise leaves base_configs assigned
SetBaseConfigs(h, base_configs) ==
    /\ h \in Bound
    /\ \E built \in {_build_config(cfgs[h].dynamic, base_configs,
                                     datas[cfgs[h].data].config)} :
          IF built.err # ""
          THEN /\ cfgs' = [cfgs EXCEPT ![h].base_configs = base_configs]
               /\ blocks' = blocks
               /\ last' = Call("set_base_configs", h, <<>>, None, Raise(built.err))
          ELSE /\ cfgs' = [cfgs EXCEPT ![h].base_configs = base_configs,
                                       ![h].dynamic =
                                           Cardinality(DOMAIN built.block.merged_config.sub) > 1]
               /\ blocks' = [blocks EXCEPT ![cfgs[h].config] = built.block]
               /\ last' = Call("set_base_configs", h, <<>>, None, EmptyDict)
    /\ UNCHANGED <<datas, restVars>>

---------------------------------------------------------------------------
(* ConfigurationManager *)

\* a document of a file under the config path is [uuid, base, config, dynamic,
\* file]; base is the list of base uuids, empty when the document has no "base"
NoManager ==
    [loaded |-> FALSE, raised |-> "", documents |-> <<>>,
     _json_by_uuid |-> EmptyMap, _ordered_configs |-> <<>>,
     configs |-> <<>>, configs_by_uuid |-> EmptyMap, configs_by_file |-> EmptyMap,
     written |-> EmptyMap]

CycleError == "Exception: There is a cycle in the config inheritance!"

MissingError == "Exception: There is no config with uuid"

DuplicateError == "Exception: A config with uuid is already defined!"

Put(f, k, v) == [x \in DOMAIN f \cup {k} |-> IF x = k THEN v ELSE f[x]]

\* a document without the key "uuid"
NoUuid == ""

\* str(uuid.uuid4()), the n-th value drawn in a run: a value no document declares
\* and no earlier draw returned
uuid4(n) == <<"u1", "u2", "u3", "u4">>[n]

\* the index loop, with the duplicate test left out
RECURSIVE IndexDocuments_overwriting(_, _)
IndexDocuments_overwriting(index, documents) ==
    IF documents = <<>> THEN index
    ELSE LET d == IF Head(documents).uuid = NoUuid
                  THEN [Head(documents) EXCEPT
                           !.uuid = uuid4(Len(index._ordered_configs) + 1)]
                  ELSE Head(documents)
         IN IndexDocuments_overwriting(
                    [index EXCEPT !._json_by_uuid = Put(@, d.uuid, d),
                                  !._ordered_configs = Append(@, d.uuid)],
                    Tail(documents))

\* the first loop of __init__: [_json_by_uuid, _ordered_configs, raised]
RECURSIVE IndexDocuments(_, _)
IndexDocuments(index, documents) ==
    IF documents = <<>> THEN index
    ELSE LET d == IF Head(documents).uuid = NoUuid
                  THEN [Head(documents) EXCEPT
                           !.uuid = uuid4(Len(index._ordered_configs) + 1)]
                  ELSE Head(documents)
         IN IF d.uuid \in DOMAIN index._json_by_uuid
            THEN [index EXCEPT !.raised = DuplicateError]
            ELSE IndexDocuments(
                    [index EXCEPT !._json_by_uuid = Put(@, d.uuid, d),
                                  !._ordered_configs = Append(@, d.uuid)],
                    Tail(documents))

\* a second object made from a document of the same uuid
Twin(id) == id \o "'"

\* the identity of the object Configuration(config_data, ...) makes: that of its
\* uuid, or a new one when an object made from this uuid exists already
RECURSIVE ObjectId(_, _)
ObjectId(objects, id) == IF id \notin objects THEN id ELSE ObjectId(objects, Twin(id))

\* create_config on the state st of the constructor run: the objects made so far
\* and the indexes
create_config(st, config_data, base_configs, file) ==
    LET id == ObjectId(DOMAIN st.cfgs, config_data.uuid)
        made == set_data([FreshConfiguration(base_configs) EXCEPT !.file = file], id,
                         config_data)
    IN IF made.err # "" THEN [st EXCEPT !.raised = made.err]
       ELSE [st EXCEPT
               !.cfgs = Put(@, id, [made.cfg EXCEPT !.config = id]),
               !.datas = Put(@, id, config_data),
               !.blocks = Put(@, id, made.block),
               !.configs_by_file =
                   IF file = NoFile THEN @
                   ELSE Put(@, file, IF file \in DOMAIN @ THEN Append(@[file], id)
                                     ELSE <<id>>),
               !.configs_by_uuid = IF file = NoFile THEN @
                                   ELSE Put(@, config_data.uuid, id)]

\* (a singleton set, here and below, binds the state a call returns before the
\* state is read)
RECURSIVE _load_config_with_uuid(_, _, _, _)
RECURSIVE LoadBases(_, _, _, _)
\* the loop over the base uuids of one document
LoadBases(st, json, base_config_uuids, children_configs) ==
    IF base_config_uuids = <<>> \/ st.raised # "" THEN st
    ELSE CHOOSE out \in
            {LoadBases(loaded, json, Tail(base_config_uuids), children_configs)
             : loaded \in {_load_config_with_uuid(st, json, Head(base_config_uuids),
                                                  children_configs)}} : TRUE

_load_config_with_uuid(st, json, config_uuid, children_configs) ==
    IF config_uuid \notin DOMAIN json THEN [st EXCEPT !.raised = MissingError]
    ELSE IF \E i \in DOMAIN children_configs : children_configs[i] = config_uuid
    THEN [st EXCEPT !.raised = CycleError]
    ELSE IF config_uuid \in DOMAIN st.configs_by_uuid THEN st
    ELSE LET config_data == json[config_uuid]
         IN CHOOSE out \in
               {IF based.raised # "" THEN based
                ELSE create_config(based, config_data,
                                   ListBases([i \in DOMAIN config_data.base |->
                                                BaseRef(config_data.base[i])]),
                                   config_data.file)
                : based \in {LoadBases(st, json, config_data.base,
                                       Append(children_configs, config_uuid))}} : TRUE

\* the second loop of __init__
RECURSIVE LoadOrdered(_, _, _)
LoadOrdered(st, json, ordered) ==
    IF ordered = <<>> \/ st.raised # "" THEN st
    ELSE CHOOSE out \in
            {IF loaded.raised # "" THEN loaded
             ELSE CHOOSE rest \in
                     {LoadOrdered(appended, json, Tail(ordered))
                      : appended \in
                          {[loaded EXCEPT
                              !.configs = Append(@, loaded.configs_by_uuid[Head(ordered)])]}}
                     : TRUE
             : loaded \in {_load_config_with_uuid(st, json, Head(ordered), <<>>)}} : TRUE

\* ConfigurationManager(config_path) over the documents found under the path: no
\* manager, and no object the caller can reach, when the constructor raises
Load(documents) ==
    /\ ~mgr.loaded
    /\ mgr.raised = ""
    /\ \E index \in {IndexDocuments([_json_by_uuid |-> EmptyMap, _ordered_configs |-> <<>>,
                                      raised |-> ""], documents)} :
       \E started \in {[cfgs |-> cfgs, datas |-> datas, blocks |-> blocks,
                         configs |-> <<>>, configs_by_uuid |-> EmptyMap,
                         configs_by_file |-> EmptyMap, raised |-> index.raised]} :
       \E st \in {LoadOrdered(started, index._json_by_uuid, index._ordered_configs)} :
          IF st.raised # ""
          THEN /\ mgr' = [NoManager EXCEPT !.raised = st.raised, !.documents = documents]
               /\ last' = Call("ConfigurationManager", "", <<>>, None, Raise(st.raised))
               /\ UNCHANGED <<cfgs, datas, blocks>>
          ELSE /\ mgr' = [loaded |-> TRUE, raised |-> "", documents |-> documents,
                          _json_by_uuid |-> index._json_by_uuid,
                          _ordered_configs |-> index._ordered_configs,
                          configs |-> st.configs,
                          configs_by_uuid |-> st.configs_by_uuid,
                          configs_by_file |-> st.configs_by_file,
                          written |-> EmptyMap]
               /\ cfgs' = st.cfgs
               /\ datas' = st.datas
               /\ blocks' = st.blocks
               /\ last' = Call("ConfigurationManager", "", <<>>, None, EmptyDict)
    /\ UNCHANGED <<mLayers, mResult, preset, logfile, logging>>

\* the first i with s[i] = x, or 0: list.index
IndexOf(s, x) ==
    IF \E i \in DOMAIN s : s[i] = x
    THEN CHOOSE i \in DOMAIN s : s[i] = x /\ \A j \in 1..(i - 1) : s[j] # x
    ELSE 0

\* list.remove(x) on a list that holds x
Without(s, x) == [i \in 1..(Len(s) - 1) |-> IF i < IndexOf(s, x) THEN s[i] ELSE s[i + 1]]

\* save(): the files written, by name, each with the raw documents of its
\* presets; save_to_file does not write a file that has no preset left
save(configs_by_file, documents, written) ==
    [f \in DOMAIN written \cup {g \in DOMAIN configs_by_file : configs_by_file[g] # <<>>} |->
        IF f \in DOMAIN configs_by_file /\ configs_by_file[f] # <<>>
        THEN [i \in DOMAIN configs_by_file[f] |-> documents[configs_by_file[f][i]]]
        ELSE written[f]]

\* config.uuid
UuidOf(h) == datas[cfgs[h].data].uuid

\* the removal that leaves the entry by uuid in place
remove_config_keeping_uuid(st, config, file, config_uuid) ==
    [st EXCEPT !.configs = Without(@, config)]

\* the indexes after remove_config(config), before save(); raised holds the
\* exception of the statement that failed, the statements before it done
remove_config(st, config, file, config_uuid) ==
    IF IndexOf(st.configs, config) = 0 THEN [st EXCEPT !.raised = "ValueError"]
    ELSE IF file # NoFile /\ (file \notin DOMAIN st.configs_by_file
                              \/ IndexOf(st.configs_by_file[file], config) = 0)
    THEN [st EXCEPT !.configs = Without(@, config),
                    !.raised = IF file \in DOMAIN st.configs_by_file
                               THEN "ValueError" ELSE "KeyError"]
    ELSE IF config_uuid \notin DOMAIN st.configs_by_uuid
    THEN [st EXCEPT !.configs = Without(@, config),
                    !.configs_by_file =
                        IF file = NoFile THEN @
                        ELSE [@ EXCEPT ![file] = Without(@, config)],
                    !.raised = "KeyError"]
    ELSE [st EXCEPT !.configs = Without(@, config),
                    !.configs_by_file =
                        IF file = NoFile THEN @
                        ELSE [@ EXCEPT ![file] = Without(@, config)],
                    !.configs_by_uuid =
                        [u \in DOMAIN @ \ {config_uuid} |-> @[u]]]

\* manager.remove_config(config)
RemoveConfig(h) ==
    /\ mgr.loaded
    /\ h \in Bound
    /\ \E st \in {remove_config(mgr, h, cfgs[h].file,
                                  IF IndexOf(mgr.configs, h) = 0 THEN NoUuid ELSE UuidOf(h))} :
          IF st.raised # ""
          THEN /\ mgr' = [st EXCEPT !.raised = ""]
               /\ last' = Call("remove_config", h, <<>>, None, Raise(st.raised))
          ELSE /\ mgr' = [st EXCEPT !.written =
                              save(st.configs_by_file,
                                   [o \in DOMAIN cfgs |-> datas[cfgs[o].data]], @)]
               /\ last' = Call("remove_config", h, <<>>, None, EmptyDict)
    /\ UNCHANGED <<cfgs, datas, blocks, mLayers, mResult, preset, logfile, logging>>

\* the uuid set_data draws for a document without one
NextUuid4 == uuid4(CHOOSE n \in 1..4 : uuid4(n) \notin Bound
                                       /\ \A k \in 1..(n - 1) : uuid4(k) \in Bound)

\* add_config that lists the preset before it looks its bases up
AddConfig_listing_first(config_data, file) ==
    /\ mgr.loaded
    /\ \E i \in DOMAIN config_data.base :
          config_data.base[i] \notin DOMAIN mgr.configs_by_uuid
    /\ mgr' = [mgr EXCEPT !.configs = Append(@, config_data.uuid)]
    /\ last' = Call("add_config", "", <<>>, None, Raise("KeyError"))
    /\ UNCHANGED <<cfgs, datas, blocks, mLayers, mResult, preset, logfile, logging>>

\* manager.add_config(config_data, file), without metadata
AddConfig(config_data, file) ==
    /\ mgr.loaded
    /\ IF \E i \in DOMAIN config_data.base :
             config_data.base[i] \notin DOMAIN mgr.configs_by_uuid
       THEN /\ last' = Call("add_config", "", <<>>, None, Raise("KeyError"))
            /\ UNCHANGED <<cfgs, datas, blocks, mgr>>
       ELSE \E data \in {IF config_data.uuid = NoUuid
                          THEN [config_data EXCEPT !.uuid = NextUuid4]
                          ELSE config_data} :
            \E st \in {create_config(
                          [cfgs |-> cfgs, datas |-> datas, blocks |-> blocks,
                           configs |-> mgr.configs,
                           configs_by_uuid |-> mgr.configs_by_uuid,
                           configs_by_file |-> mgr.configs_by_file, raised |-> ""],
                          data,
                          ListBases([i \in DOMAIN data.base |->
                                       BaseRef(mgr.configs_by_uuid[data.base[i]])]),
                          file)} :
               IF st.raised # ""
               THEN /\ last' = Call("add_config", data.uuid, <<>>, None, Raise(st.raised))
                    /\ UNCHANGED <<cfgs, datas, blocks, mgr>>
               ELSE /\ cfgs' = st.cfgs
                    /\ datas' = st.datas
                    /\ blocks' = st.blocks
                    /\ mgr' = [mgr EXCEPT
                                 !.configs_by_uuid = st.configs_by_uuid,
                                 !.configs_by_file = st.configs_by_file,
                                 !.configs = IF file = NoFile THEN @
                                             ELSE Append(@, ObjectId(Bound, data.uuid)),
                                 !.written =
                                     IF file = NoFile THEN @
                                     ELSE save(st.configs_by_file,
                                               [o \in DOMAIN st.cfgs |->
                                                  st.datas[st.cfgs[o].data]], @)]
                    /\ last' = Call("add_config", ObjectId(Bound, data.uuid), <<>>, None,
                                     EmptyDict)
    /\ UNCHANGED <<mLayers, mResult, preset, logfile, logging>>

---------------------------------------------------------------------------
(* Preset, the earlier generation of Configuration *)

NoPreset == [made |-> FALSE, data |-> [config |-> EmptyDict, dynamic |-> FALSE],
             config |-> NewBlock(EmptyDict, <<>>), dynamic |-> FALSE]

\* Preset.set_data
Preset_set_data(new_data) ==
    [made |-> TRUE, data |-> new_data, config |-> NewBlock(new_data.config, <<>>),
     dynamic |-> new_data.dynamic]

\* Preset(data)
NewPreset(data) ==
    /\ ~preset.made
    /\ preset' = Preset_set_data(data)
    /\ last' = Call("Preset", "", <<>>, None, EmptyDict)
    /\ UNCHANGED <<cfgs, datas, blocks, mLayers, mResult, mgr, logfile, logging>>

RECURSIVE Preset_deep_update(_, _)
Preset_deep_update(d, u) ==
    IF DOMAIN u.sub = {} THEN d
    ELSE IF ~IsDict(d) THEN IntoLeaf(u)
    ELSE LET new(k) == IF IsDict(u.sub[k])
                       THEN Preset_deep_update(GetOrEmpty(d, k), u.sub[k])
                       ELSE u.sub[k]
             bad == {k \in DOMAIN u.sub : IsErr(new(k))}
         IN IF bad # {} THEN new(CHOOSE k \in bad : TRUE)
            ELSE Dict([k \in DOMAIN d.sub \cup DOMAIN u.sub |->
                         IF k \in DOMAIN u.sub THEN new(k) ELSE d.sub[k]])

\* preset.set_config_at_timestep(new_config, timestep): it works on copies, so
\* an exception leaves the preset as it was
SetConfigAtTimestep(new_config, timestep) ==
    /\ preset.made
    /\ LET key == TimestepKey(timestep)
           merged == IF preset.dynamic /\ Has(preset.data.config, key)
                     THEN Preset_deep_update(preset.data.config.sub[key], new_config)
                     ELSE new_config
           data == IF preset.dynamic THEN preset.data
                   ELSE [config |-> Single("0", preset.data.config), dynamic |-> TRUE]
       IN IF IsErr(merged)
          THEN /\ preset' = preset
               /\ last' = Call("set_config_at_timestep", "", <<>>, None, Raise(merged.kind))
          ELSE /\ preset' = Preset_set_data(
                                [data EXCEPT !.config = Dict(Put(data.config.sub, key, merged))])
               /\ last' = Call("set_config_at_timestep", "", <<>>, None, new_config)
    /\ UNCHANGED <<cfgs, datas, blocks, mLayers, mResult, mgr, logfile, logging>>

---------------------------------------------------------------------------
(* Drivers: the documents, bases and names the runs draw from *)

PositionOf(h) == CHOOSE i \in DOMAIN Handles : Handles[i] = h

\* sequences without repetition, of one or two of the handles in S
BaseLists(S) ==
    {<<BaseRef(x)>> : x \in S} \cup
    {<<BaseRef(x), BaseRef(y)>> : <<x, y>> \in {z \in S \X S : z[1] # z[2]}}

\* {iteration: bases}
OneIteration(iteration, bases) == DictBases(<<[iteration |-> iteration, bases |-> bases]>>)

\* a flat document whose every leaf is v: key a absent or a leaf, key b absent, a
\* leaf or a block with the leaf n
FlatConfigs(v) ==
    DictsOver({"a"}, {Leaf(v)}) \X DictsOver({"b"}, {Leaf(v), Single("n", Leaf(v))})

Join(pair) ==
    Dict([k \in DOMAIN pair[1].sub \cup DOMAIN pair[2].sub |->
            IF k \in DOMAIN pair[1].sub THEN pair[1].sub[k] ELSE pair[2].sub[k]])

FlatDocs(v) == {[config |-> Join(c), dynamic |-> FALSE] : c \in FlatConfigs(v)}

\* a document declared dynamic that has timestep 0 alone
StaticScheduleDoc(v) == [config |-> Single("0", Single("a", Leaf(v))), dynamic |-> TRUE]

Names == {<<"a">>, <<"b">>, <<"b", "n">>}

Fallbacks == {None, <<"a">>, <<"b">>}

---------------------------------------------------------------------------
(* Flat inheritance runs: presets built over each other, bases at iteration "0" *)

MergeIdle ==
    /\ mLayers = <<>>
    /\ mResult = [done |-> FALSE, out |-> EmptyDict]

Init ==
    /\ MergeIdle
    /\ NoObjects
    /\ mgr = NoManager
    /\ preset = NoPreset

Build ==
    /\ ~AllBound
    /\ \E data \in FlatDocs(PositionOf(NextHandle))
                     \cup {StaticScheduleDoc(PositionOf(NextHandle))} :
          \/ NewConfiguration(data, NoBases)
          \/ \E bases \in BaseLists(Bound) : NewConfiguration(data, OneIteration("0", bases))
          \/ \E bases \in BaseLists(Bound) : NewConfiguration(data, ListBases(bases))

\* the handles of h's bases, in the order _build_config reads them
RECURSIVE EntryHandles(_)
EntryHandles(entries) ==
    IF entries = <<>> THEN <<>>
    ELSE [j \in DOMAIN Head(entries).bases |-> Head(entries).bases[j].cfg]
         \o EntryHandles(Tail(entries))

BaseHandles(h) == EntryHandles(cfgs[h].base_configs.entries)

IsBaseOf(b, h) == \E j \in DOMAIN BaseHandles(h) : BaseHandles(h)[j] = b

\* bases are attached to a preset built after them, before anything inherits from it
Rebase ==
    \E h \in {x \in Bound : \A y \in Bound : ~IsBaseOf(x, y)} :
       \E bases \in BaseLists({x \in Bound : PositionOf(x) < PositionOf(h)}) :
          SetBaseConfigs(h, OneIteration("0", bases))

Lookup == \E h \in Bound, name \in Names : GetInt(h, name, None)

Next == Build \/ Rebase \/ Lookup

Spec == Init /\ [][Next]_vars

---------------------------------------------------------------------------
(* Schedule runs: a preset p, flat or with timesteps, and a flat child q of p;
   the cursors move and both are looked up, with and without fallback *)

\* the leaf h declares at timestep t
TimestepValue(h, t) == PositionOf(h) * 10 + t

\* documents with timesteps: each timestep is absent or declares one of the keys
ScheduleConfigs(h) ==
    UNION {{Dict([k \in {TimestepKey(t) : t \in T} |->
                    Single(f[TimestepOf(k)], Leaf(TimestepValue(h, TimestepOf(k))))])
            : f \in [T -> Keys]}
           : T \in SUBSET Timesteps}

\* flat documents: empty, or one of the keys
SmallConfigs(h) == {EmptyDict} \cup {Single(k, Leaf(TimestepValue(h, 0))) : k \in Keys}

ScheduleDocs(h) ==
    {[config |-> c, dynamic |-> TRUE] : c \in ScheduleConfigs(h)} \cup
    {[config |-> c, dynamic |-> FALSE] : c \in SmallConfigs(h)}

ScheduleBuild ==
    \/ /\ Bound = {}
       /\ \E data \in ScheduleDocs(NextHandle) : NewConfiguration(data, NoBases)
    \/ /\ Bound = {Handles[1]}
       /\ \E c \in SmallConfigs(NextHandle) :
             NewConfiguration([config |-> c, dynamic |-> FALSE],
                              OneIteration("0", <<BaseRef(Handles[1])>>))

Advance == \E h \in Bound, c \in Timesteps : SetIterationCursor(h, c)

ScheduleLookup ==
    \E h \in Bound, name \in {<<k>> : k \in Keys}, fallback \in Fallbacks :
       GetInt(h, name, fallback)

ScheduleNext == ScheduleBuild \/ Advance \/ ScheduleLookup

SpecSchedule == Init /\ [][ScheduleNext]_vars

---------------------------------------------------------------------------
(* Log runs: one preset, flat or with timesteps; a logger is installed and
   removed, the cursor moves and the keys are looked up *)

MaxLog == 4

\* the documents with timesteps that declare timestep 0 and nothing behind 1
LogDocs(h) ==
    {d \in ScheduleDocs(h) :
        /\ d.dynamic
        /\ TimestepKey(0) \in DOMAIN d.config.sub
        /\ \A k \in DOMAIN d.config.sub : TimestepOf(k) <= 1}

LogBuild ==
    /\ Bound = {}
    /\ \E data \in LogDocs(NextHandle) : NewConfiguration(data, NoBases)

InstallLogger ==
    \E h \in Bound, new_logger \in {None, TheLogger} :
       /\ Len(logfile) < MaxLog
       /\ SetLogger(h, new_logger)

LogAdvance == \E h \in Bound, c \in 0..1 : SetIterationCursor(h, c)

LogLookup ==
    /\ Len(logfile) < MaxLog
    /\ ScheduleLookup

LogNext == LogBuild \/ InstallLogger \/ LogAdvance \/ LogLookup

SpecLog == Init /\ [][LogNext]_vars

---------------------------------------------------------------------------
(* Typed runs: a flat preset whose keys hold a number, a str that spells one, a
   str that spells none, a list or a block, read through the typed getters *)

TypedValues == {Leaf(1), Numeral(1), Text(1), List(1), Single("n", Leaf(1))}

TypedConfigs == DictsOver({"a"}, TypedValues) \X DictsOver({"b"}, TypedValues)

TypedBuild ==
    /\ Bound = {}
    /\ \E c \in TypedConfigs :
          NewConfiguration([config |-> Join(c), dynamic |-> FALSE], NoBases)

TypedNames == {<<"a">>, <<"b">>, <<"a", "n">>}

TypedInt == \E h \in Bound, name \in TypedNames, fallback \in Fallbacks :
               GetInt(h, name, fallback)

TypedFloat == \E h \in Bound, name \in TypedNames, fallback \in Fallbacks :
                 GetFloat(h, name, fallback)

TypedList == \E h \in Bound, name \in TypedNames, fallback \in Fallbacks :
                GetList(h, name, fallback)

TypedNext == TypedBuild \/ TypedInt \/ TypedFloat \/ TypedList

SpecTyped == Init /\ [][TypedNext]_vars

---------------------------------------------------------------------------
(* View runs: a preset of nested blocks, views of it and views of views *)

NestedConfigs ==
    LET inner == {Single("n", Leaf(1)),
                  Single("b", Single("n", Leaf(2))),
                  Dict([k \in {"n", "b"} |->
                          IF k = "n" THEN Leaf(1) ELSE Single("n", Leaf(2))])}
    IN {Single("a", x) : x \in inner} \cup
       {Dict([k \in {"a", "b"} |-> IF k = "a" THEN x ELSE Single("n", Leaf(3))])
        : x \in inner}

Prefixes == {<<"a">>, <<"b">>, <<"a", "b">>}

ViewNames == {<<"n">>, <<"b", "n">>, <<"a", "b", "n">>}

ViewBuild ==
    /\ Bound = {}
    /\ \E c \in NestedConfigs : NewConfiguration([config |-> c, dynamic |-> FALSE], NoBases)

View == \E h \in Bound, prefix \in Prefixes : GetWithPrefix(h, prefix)

ViewLookup == \E h \in Bound, name \in ViewNames : GetInt(h, name, None)

ViewNext == ViewBuild \/ View \/ ViewLookup

SpecView == Init /\ [][ViewNext]_vars

---------------------------------------------------------------------------
(* Cursor runs: a preset with timesteps 0 and 1 under the block "b" and views
   of it; cursors and try numbers are set on each, and each is looked up *)

MaxTry == 1

CursorConfigs ==
    {Dict([k \in {TimestepKey(0), TimestepKey(1)} |->
             Single("b", Single(IF k = TimestepKey(0) THEN "n" ELSE late,
                                Leaf(10 + TimestepOf(k))))])
     : late \in {"n", "m"}}

CursorBuild ==
    /\ Bound = {}
    /\ \E c \in CursorConfigs : NewConfiguration([config |-> c, dynamic |-> TRUE], NoBases)

CursorView == \E h \in Bound : GetWithPrefix(h, <<"b">>)

CursorAdvance == \E h \in Bound, c \in 0..1 : SetIterationCursor(h, c)

CursorTry == \E h \in Bound, n \in 0..MaxTry : SetTryNumber(h, n)

CursorNames == {<<"n">>, <<"b", "n">>}

CursorLookup == \E h \in Bound, name \in CursorNames : GetInt(h, name, None)

CursorNext == CursorBuild \/ CursorView \/ CursorAdvance \/ CursorTry \/ CursorLookup

SpecCursor == Init /\ [][CursorNext]_vars

---------------------------------------------------------------------------
(* Clone runs: a preset with timesteps and a clone of it; each is updated, given
   a logger, moved in time and looked up *)

CloneBuild ==
    /\ Bound = {}
    /\ NewConfiguration([config |-> Dict([k \in {TimestepKey(0), TimestepKey(1)} |->
                                           Single("a", Leaf(10 + TimestepOf(k)))]),
                         dynamic |-> TRUE], NoBases)

CloneOf == Bound = {Handles[1]} /\ Clone(Handles[1])

\* a new value for key a at timestep 0
CloneUpdate ==
    \E h \in Bound :
       UpdateConfig(h, Single(TimestepKey(0), Single("a", Leaf(TimestepValue(h, 0)))))

CloneLogger ==
    \E h \in Bound, new_logger \in {None, TheLogger} :
       /\ Len(logfile) < MaxLog
       /\ SetLogger(h, new_logger)

CloneAdvance == \E h \in Bound, c \in 0..1 : SetIterationCursor(h, c)

CloneLookup ==
    /\ Len(logfile) < MaxLog
    /\ \E h \in Bound : GetInt(h, <<"a">>, None)

CloneNext ==
    CloneBuild \/ CloneOf \/ CloneUpdate \/ CloneLogger \/ CloneAdvance \/ CloneLookup

SpecClone == Init /\ [][CloneNext]_vars

---------------------------------------------------------------------------
(* Update runs: the chain p <- q <- r of flat presets, each updated in place *)

ChainBuild ==
    /\ ~AllBound
    /\ \E c \in SmallConfigs(NextHandle) :
          NewConfiguration([config |-> c, dynamic |-> FALSE],
                           IF Bound = {} THEN NoBases
                           ELSE OneIteration("0",
                                   <<BaseRef(Handles[PositionOf(NextHandle) - 1])>>))

\* a new value for one key
Patches(h) == {Single(k, Leaf(TimestepValue(h, 1))) : k \in Keys}

Update == \E h \in Bound : \E config \in Patches(h) : UpdateConfig(h, config)

ChainLookup == \E h \in Bound, name \in {<<k>> : k \in Keys} : GetInt(h, name, None)

UpdateNext == ChainBuild \/ Update \/ ChainLookup

SpecUpdate == Init /\ [][UpdateNext]_vars

---------------------------------------------------------------------------
(* Load runs: a manager over one file of up to three documents *)

Uuids == <<"A", "B", "C">>

\* "base" absent, one uuid, or two different uuids
BaseChoices ==
    {<<>>} \cup {<<Uuids[i]>> : i \in DOMAIN Uuids} \cup
    {<<Uuids[i], Uuids[j]>> : <<i, j>> \in {z \in (DOMAIN Uuids) \X (DOMAIN Uuids) : z[1] # z[2]}}

Document(i, base) ==
    [uuid |-> Uuids[i], base |-> base, config |-> Single("a", Leaf(i)),
     dynamic |-> FALSE, file |-> "presets.json"]

DocumentLists ==
    UNION {{[i \in 1..n |-> Document(i, bases[i])] : bases \in [1..n -> BaseChoices]}
           : n \in DOMAIN Uuids}

LoadFiles == \E documents \in DocumentLists : Load(documents)

RegistryLookup ==
    /\ mgr.loaded
    /\ \E u \in DOMAIN mgr.configs_by_uuid : GetInt(mgr.configs_by_uuid[u], <<"a">>, None)

LoadNext == LoadFiles \/ RegistryLookup

SpecLoad == Init /\ [][LoadNext]_vars

---------------------------------------------------------------------------
(* Index runs: a manager over one or two files of up to three documents, some
   without a uuid, some declaring the uuid of another *)

Files == <<"f.json", "g.json">>

FileIndex(file) == CHOOSE i \in DOMAIN Files : Files[i] = file

IndexedDocuments ==
    {[uuid |-> u, base |-> b, config |-> Single("a", Leaf(1)), dynamic |-> FALSE,
      abstract |-> abstract, file |-> f]
     : u \in {NoUuid, "A", "B"}, b \in {<<>>, <<"A">>}, abstract \in BOOLEAN,
       f \in {Files[i] : i \in DOMAIN Files}}

\* the documents in the order they are read: file after file
ReadOrders ==
    UNION {{ds \in [1..n -> IndexedDocuments] :
              \A i \in 1..(n - 1) : FileIndex(ds[i].file) <= FileIndex(ds[i + 1].file)}
           : n \in DOMAIN Uuids}

IndexFiles == \E documents \in ReadOrders : Load(documents)

IndexNext == IndexFiles \/ RegistryLookup

SpecIndex == Init /\ [][IndexNext]_vars

---------------------------------------------------------------------------
(* Registry runs: a manager over two files of presets without bases; presets
   are attached as bases, added, removed and looked up *)

RegistryUuids == <<"A", "B", "C", "D">>

\* each preset declares its own value, of "a" or of "b" by turns
RegistryDocument(u, base, file) ==
    [uuid |-> u, base |-> base, dynamic |-> FALSE, file |-> file,
     config |-> IF u = NoUuid THEN Single("a", Leaf(0))
                ELSE CHOOSE c \in {Single(IF i % 2 = 1 THEN "a" ELSE "b", Leaf(i))
                                   : i \in {j \in DOMAIN RegistryUuids :
                                                RegistryUuids[j] = u}} : TRUE]

RegistryFiles ==
    {<<RegistryDocument("A", <<>>, "f.json"), RegistryDocument("B", <<>>, "g.json")>>,
     <<RegistryDocument("A", <<>>, "f.json"), RegistryDocument("B", <<>>, "f.json"),
       RegistryDocument("C", <<>>, "g.json")>>}

Registered == {mgr.configs[i] : i \in DOMAIN mgr.configs}

RegistryLoad == \E documents \in RegistryFiles : Load(documents)

\* a registered preset without bases or heirs takes a registered preset without
\* bases as its base
RegistryRebase ==
    \E h \in Registered, b \in Registered :
       /\ h # b
       /\ cfgs[h].base_configs = NoBases
       /\ cfgs[b].base_configs = NoBases
       /\ \A o \in Bound : ~IsBaseOf(h, o)
       /\ SetBaseConfigs(h, OneIteration("0", <<BaseRef(b)>>))

RegistryAdd ==
    \E u \in {NoUuid, "D"}, base \in {<<>>, <<"A">>, <<"Z">>},
       file \in {NoFile, "f.json", "h.json"} :
       /\ "D" \notin Bound
       /\ uuid4(1) \notin Bound
       /\ AddConfig(RegistryDocument(u, base, file), file)

RegistryRemove == \E h \in Bound : RemoveConfig(h)

RegistryGet == \E h \in Bound, k \in Keys : GetInt(h, <<k>>, None)

RegistryNext ==
    RegistryLoad \/ RegistryRebase \/ RegistryAdd \/ RegistryRemove \/ RegistryGet

SpecRegistry == Init /\ [][RegistryNext]_vars

---------------------------------------------------------------------------
(* Twin runs: a manager over two files of presets without bases; documents are
   added whose uuid is registered, was registered or is new, and presets are
   removed *)

\* the objects a run makes at most
MaxObjects == 4

TwinAdd ==
    \E u \in {"A", "D"}, file \in {NoFile, "f.json", "g.json"} :
       /\ Cardinality(Bound) < MaxObjects
       /\ AddConfig(RegistryDocument(u, <<>>, file), file)

TwinNext == RegistryLoad \/ TwinAdd \/ RegistryRemove

SpecTwin == Init /\ [][TwinNext]_vars

---------------------------------------------------------------------------
(* Scoped runs: a preset with the keys "n" and "m" at its top and under the
   block "a"; views of it are made and "n" is looked up with a fallback *)

ScopedInner == {[k \in S |-> Leaf(IF k = "n" THEN 1 ELSE 2)] : S \in SUBSET {"n", "m"}}

ScopedConfigs ==
    {Dict([k \in T \cup (IF DOMAIN inner = {} THEN {} ELSE {"a"}) |->
             IF k = "a" THEN Dict(inner) ELSE Leaf(IF k = "m" THEN 3 ELSE 4)])
     : inner \in ScopedInner, T \in SUBSET {"n", "m"}}

ScopedFallbacks == {None, <<"m">>, <<"a", "m">>}

ScopedBuild ==
    /\ Bound = {}
    /\ \E c \in ScopedConfigs : NewConfiguration([config |-> c, dynamic |-> FALSE], NoBases)

ScopedView == \E h \in Bound : GetWithPrefix(h, <<"a">>)

ScopedLookup ==
    \E h \in Bound, name \in {<<"n">>, <<"a", "n">>}, fallback \in ScopedFallbacks :
       GetInt(h, name, fallback)

ScopedNext == ScopedBuild \/ ScopedView \/ ScopedLookup

SpecScoped == Init /\ [][ScopedNext]_vars

---------------------------------------------------------------------------
(* Follow runs: a preset with the block "b", views of the block, updates of
   the preset's configuration and lookups on each *)

FollowConfigs ==
    {Single("b", Single("n", Leaf(1))),
     Single("b", Dict([k \in {"n", "k"} |-> Leaf(1)]))}

FollowPatches == {Single("b", Single(k, Leaf(v))) : k \in {"n", "k"}, v \in 1..2}

FollowNames == {<<"n">>, <<"k">>}

FollowBuild ==
    /\ Bound = {}
    /\ \E c \in FollowConfigs : NewConfiguration([config |-> c, dynamic |-> FALSE], NoBases)

FollowView == \E h \in Bound : cfgs[h].prefix = <<>> /\ GetWithPrefix(h, <<"b">>)

FollowUpdate == \E h \in Bound, config \in FollowPatches : UpdateConfig(h, config)

FollowLookup ==
    \E h \in Bound, name \in FollowNames :
       GetInt(h, IF cfgs[h].prefix = <<>> THEN <<"b">> \o name ELSE name, None)

FollowNext == FollowBuild \/ FollowView \/ FollowUpdate \/ FollowLookup

SpecFollow == Init /\ [][FollowNext]_vars

---------------------------------------------------------------------------
(* Preset runs: a flat or dynamic Preset whose timesteps are set *)

PresetDocs ==
    {[config |-> Join(c), dynamic |-> FALSE] : c \in FlatConfigs(1)} \cup
    {[config |-> Single("0", Join(c)), dynamic |-> TRUE] : c \in FlatConfigs(1)}

NewConfigs == {Single("a", Leaf(2)), Single("b", Single("n", Leaf(2)))}

PresetBuild == \E data \in PresetDocs : NewPreset(data)

PresetSet == \E new_config \in NewConfigs, t \in Timesteps : SetConfigAtTimestep(new_config, t)

PresetNext == PresetBuild \/ PresetSet

SpecPreset == Init /\ [][PresetNext]_vars

---------------------------------------------------------------------------
(* Merge runs: ConfigurationBlock(config, base_configs) on drawn layers *)

MergeInit ==
    /\ NoObjects
    /\ mgr = NoManager
    /\ preset = NoPreset
    /\ mLayers \in {<<b, c>> : b \in Trees, c \in Trees}
    /\ mResult = [done |-> FALSE, out |-> EmptyDict]

Merge ==
    /\ ~mResult.done
    /\ mResult' = [done |-> TRUE,
                   out |-> _merge_config(mLayers[Len(mLayers)],
                              [i \in 1..(Len(mLayers) - 1) |-> Layer(mLayers[i])])]
    /\ UNCHANGED <<mLayers, objVars, mgr, preset, logfile, logging>>

MergeNext == Merge

SpecMerge == MergeInit /\ [][MergeNext]_vars

---------------------------------------------------------------------------
(* Template runs: one base layer with positional arguments under a config *)

MaxArgs == 2

\* positional arguments: strs that are JSON documents, strs that are not, a str
\* that is a token itself, and a number
ArgValues ==
    {Str(<<"5">>), Str(<<"abc">>), Str(<<"null">>), Str(<<"{\"n\": 1}">>),
     Str(<<"\"s\"">>), Str(<<Template(1)>>), Leaf(7)}

ArgLists == UNION {[1..n -> ArgValues] : n \in 0..MaxArgs}

\* leaves of the base layer: a token alone, a token within a text, two tokens,
\* a str without tokens and a number
TemplateLeaves ==
    {Str(<<Template(0)>>), Str(<<Template(1)>>), Str(<<"x", Template(0)>>),
     Str(<<Template(0), "-", Template(1)>>), Text(1), Leaf(1)}

TemplateTrees ==
    {Single("a", l) : l \in TemplateLeaves} \cup
    {Single("b", Single("n", l)) : l \in TemplateLeaves}

\* the config over the base layer: empty, or a token of its own
OwnTrees == {EmptyDict, Single("c", Str(<<Template(0)>>)), Single("a", Str(<<Template(0)>>))}

TemplateInit ==
    /\ NoObjects
    /\ mgr = NoManager
    /\ preset = NoPreset
    /\ mLayers \in {<<[tree |-> b, args |-> a], [tree |-> c, args |-> <<>>]>>
                    : b \in TemplateTrees, a \in ArgLists, c \in OwnTrees}
    /\ mResult = [done |-> FALSE, out |-> EmptyDict]

\* ConfigurationBlock(config, [[base, arg, ...]])
TemplateMerge ==
    /\ ~mResult.done
    /\ mResult' = [done |-> TRUE,
                   out |-> NewBlock(mLayers[2].tree, <<mLayers[1]>>).merged_config]
    /\ UNCHANGED <<mLayers, objVars, mgr, preset, logfile, logging>>

TemplateNext == TemplateMerge

SpecTemplate == TemplateInit /\ [][TemplateNext]_vars

---------------------------------------------------------------------------
(* Logger: a root logger owns the file and the mutex, a logger made by
   get_with_module hands log on to its parent.  The calls of log run
   concurrently, a step per statement. *)

\* the module name of the root logger
RootLogger == "general"

\* the module names get_with_module is called with
ModuleNames == {"m", "n"}

\* the line log builds: "[time][level][module] message"; the message tells the
\* caller and the call
LogLine(module, message) ==
    [line |-> message, name |-> <<module>>, old |-> EmptyDict, new |-> EmptyDict]

\* the logger whose mutex and file a call of l.log does not reach: l itself
Logger_sink_own(parent, l) == l

\* the logger whose mutex and file a call of l.log reaches: log hands on to
\* _parent.log until _parent is None
RECURSIVE Logger_sink(_, _)
Logger_sink(parent, l) ==
    IF parent[l] = "" THEN l ELSE Logger_sink(parent, parent[l])

\* who holds the mutex of the logger, "" when it is free
Holder(mutex, l) == IF l \in DOMAIN mutex THEN mutex[l] ELSE ""

\* Logger(log_path, file_name): the file is opened to append, and the line of
\* dashes is logged before the logger is handed to anyone
OpenLogger ==
    /\ logging.parent = EmptyMap
    /\ logging' = [logging EXCEPT !.parent = Put(@, RootLogger, ""),
                                  !.mutex = Put(@, RootLogger, "")]
    /\ logfile' = Logger_log(logfile, <<Dashes>>)
    /\ UNCHANGED <<objVars, mLayers, mResult, mgr, preset>>

\* l.get_with_module(module_name)
GetWithModule(l, module_name) ==
    /\ l \in DOMAIN logging.parent
    /\ module_name \notin DOMAIN logging.parent
    /\ logging' = [logging EXCEPT !.parent = Put(@, module_name, l)]
    /\ UNCHANGED <<objVars, mLayers, mResult, mgr, preset, logfile>>

MaxCalls == 3

\* c calls l.log(message): the call goes up to the root, which builds the line
LogCall(c, l) ==
    /\ logging.pc[c] = "idle"
    /\ l \in DOMAIN logging.parent
    /\ logging.calls < MaxCalls
    /\ \E sink \in {Logger_sink(logging.parent, l)} :
          logging' = [logging EXCEPT
                        !.pc[c] = "acquire",
                        !.sink[c] = sink,
                        !.line[c] = LogLine(sink, c \o ToString(logging.calls)),
                        !.raised[c] = FALSE,
                        !.calls = @ + 1]
    /\ UNCHANGED <<objVars, mLayers, mResult, mgr, preset, logfile>>

\* self._mutex.acquire(): waits while another call holds the mutex
Acquire(c) ==
    /\ logging.pc[c] = "acquire"
    /\ Holder(logging.mutex, logging.sink[c]) = ""
    /\ logging' = [logging EXCEPT !.mutex = Put(@, logging.sink[c], c),
                                  !.pc[c] = "write"]
    /\ UNCHANGED <<objVars, mLayers, mResult, mgr, preset, logfile>>

\* self._file.write(line): the line goes to the file object's buffer, or the
\* write raises and the call ends there
Write(c) ==
    /\ logging.pc[c] = "write"
    /\ \/ logging' = [logging EXCEPT !.buffer = Append(@, logging.line[c]),
                                     !.pc[c] = "flush"]
       \/ logging' = [logging EXCEPT !.pc[c] = "idle", !.raised[c] = TRUE]
    /\ UNCHANGED <<objVars, mLayers, mResult, mgr, preset, logfile>>

\* self._file.flush(): the buffer goes to the file, or the flush raises and the
\* call ends there
Flush(c) ==
    /\ logging.pc[c] = "flush"
    /\ \/ /\ logging' = [logging EXCEPT !.buffer = <<>>, !.pc[c] = "release"]
          /\ logfile' = Logger_log(logfile, logging.buffer)
       \/ /\ logging' = [logging EXCEPT !.pc[c] = "idle", !.raised[c] = TRUE]
          /\ logfile' = logfile
    /\ UNCHANGED <<objVars, mLayers, mResult, mgr, preset>>

\* self._mutex.release(), the last statement of log
Release(c) ==
    /\ logging.pc[c] = "release"
    /\ logging' = [logging EXCEPT !.mutex = Put(@, logging.sink[c], ""),
                                  !.pc[c] = "idle"]
    /\ UNCHANGED <<objVars, mLayers, mResult, mgr, preset, logfile>>

LoggerNext ==
    \/ OpenLogger
    \/ \E l \in DOMAIN logging.parent, module_name \in ModuleNames :
          GetWithModule(l, module_name)
    \/ \E c \in Callers, l \in DOMAIN logging.parent : LogCall(c, l)
    \/ \E c \in Callers : Acquire(c)
    \/ \E c \in Callers : Write(c)
    \/ \E c \in Callers : Flush(c)
    \/ \E c \in Callers : Release(c)

SpecLogger == Init /\ [][LoggerNext]_vars

\* every thread that can take a step takes one, and a thread waiting for a
\* mutex that is free again and again gets it
LoggerFairness ==
    \A c \in Callers :
       /\ SF_vars(Acquire(c))
       /\ WF_vars(Write(c))
       /\ WF_vars(Flush(c))
       /\ WF_vars(Release(c))

SpecLoggerFair == SpecLogger /\ LoggerFairness

---------------------------------------------------------------------------
(* Reading a raw document, for the statements below *)

\* the node at path name of tree; "absent" when a key of the path is missing,
\* "leaf-on-path" when a key before the last holds a leaf
RECURSIVE At(_, _)
At(tree, name) ==
    IF ~Has(tree, Head(name)) THEN Raise("absent")
    ELSE IF Len(name) = 1 THEN tree.sub[Head(name)]
    ELSE IF IsDict(tree.sub[Head(name)]) THEN At(tree.sub[Head(name)], Tail(name))
    ELSE Raise("leaf-on-path")

OwnConfig(h) == datas[cfgs[h].data].config

DefinesLeaf(h, name) == IsLeaf(At(OwnConfig(h), name))

\* h turns a block on the path of name into a leaf
Hides(h, name) == At(OwnConfig(h), name).kind = "leaf-on-path"

RECURSIVE IsChain(_)
IsChain(h) ==
    /\ Len(BaseHandles(h)) <= 1
    /\ Len(BaseHandles(h)) = 1 => IsChain(BaseHandles(h)[1])

\* h, its base, the base of its base, ...
RECURSIVE ChainOf(_)
ChainOf(h) ==
    IF BaseHandles(h) = <<>> THEN <<h>> ELSE <<h>> \o ChainOf(BaseHandles(h)[1])

Definers(chain, name) == {i \in DOMAIN chain : DefinesLeaf(chain[i], name)}

\* the merge of h's document over its bases completes
Derived(h) ==
    _build_config(cfgs[h].dynamic, cfgs[h].base_configs, OwnConfig(h)).err = ""

\* the position in the chain of the most-derived preset that defines name
MostDerived(chain, name) ==
    CHOOSE i \in Definers(chain, name) : \A j \in Definers(chain, name) : i <= j

---------------------------------------------------------------------------
(* C1 *)

IsDynamicDoc(h) == datas[cfgs[h].data].dynamic

\* a chain of single bases, of flat presets whose merges complete
FlatChain(h) ==
    /\ IsChain(h)
    /\ \A i \in DOMAIN ChainOf(h) : ~IsDynamicDoc(ChainOf(h)[i]) /\ Derived(ChainOf(h)[i])

---------------------------------------------------------------------------
(* C2 *)

\* the deep-merge rule as stated: recursive on two nested objects, otherwise the
\* later value replaces the earlier one
RECURSIVE RuleMerge(_, _)
RuleMerge(d, u) ==
    Dict([k \in DOMAIN d.sub \cup DOMAIN u.sub |->
            IF k \notin DOMAIN u.sub THEN d.sub[k]
            ELSE IF k \notin DOMAIN d.sub THEN u.sub[k]
            ELSE IF IsDict(d.sub[k]) /\ IsDict(u.sub[k]) THEN RuleMerge(d.sub[k], u.sub[k])
            ELSE u.sub[k]])

\* C2: merging an earlier and a later layer completes and gives the rule's tree:
\* nested objects merged recursively, every other combination (a leaf under a
\* nested object included) replaced by the later value
C2_DeepMergeRule ==
    mResult.done => mResult.out = RuleMerge(mLayers[1], mLayers[2])

---------------------------------------------------------------------------
(* C4, C5, C7 *)

\* the timesteps <= c that tree declares and at which name resolves to a value
DefiningTimesteps(tree, name, c) ==
    {t \in 0..c : /\ Has(tree, TimestepKey(t))
                  /\ ~IsErr(At(tree.sub[TimestepKey(t)], name))}

\* the value name has at the greatest timestep <= c that defines it
Declared(tree, name, c) ==
    LET T == DefiningTimesteps(tree, name, c)
    IN IF T = {} THEN Raise("NotFoundError")
       ELSE At(tree.sub[TimestepKey(CHOOSE t \in T : \A u \in T : u <= t)], name)

\* C4: a dynamic preset at cursor c answers get_int(k) with the value declared
\* at the greatest declared timestep <= c that defines k, and with NotFoundError
\* when no timestep <= c defines k
C4_TimestepShadowing ==
    (/\ last.op = "get_int"
     /\ last.fallback = None
     /\ IsDynamicDoc(last.h)
     /\ BaseHandles(last.h) = <<>>) =>
        last.out = Declared(OwnConfig(last.h), last.name, cfgs[last.h].iteration_cursor)

\* the key is declared at timestep 0 and again after the cursor, and the
\* timestep at the cursor declares another key: the value of timestep 0 is read
C4_Witness ==
    /\ last.op = "get_int"
    /\ last.fallback = None
    /\ IsDynamicDoc(last.h)
    /\ cfgs[last.h].iteration_cursor = 1
    /\ DefiningTimesteps(OwnConfig(last.h), last.name, MaxTimestep) = {0, MaxTimestep}
    /\ Has(OwnConfig(last.h), TimestepKey(1))
    /\ last.out = Leaf(TimestepValue(last.h, 0))

\* C5: a flat child of a dynamic base answers get_int(k), for a key it does not
\* define itself and any cursor c, with the value the base declares at the base's
\* greatest timestep <= c
C5_DynamicContagion ==
    (/\ last.op = "get_int"
     /\ last.fallback = None
     /\ ~IsDynamicDoc(last.h)
     /\ Len(BaseHandles(last.h)) = 1
     /\ IsDynamicDoc(BaseHandles(last.h)[1])
     /\ ~DefinesLeaf(last.h, last.name)) =>
        last.out = Declared(OwnConfig(BaseHandles(last.h)[1]), last.name,
                            cfgs[last.h].iteration_cursor)

\* C7: get_int(name, fallback) returns the value of name when a valid timestep
\* has it, otherwise the value of the fallback when one is given and a valid
\* timestep has it, otherwise NotFoundError
C7_FallbackLookup ==
    last.op = "get_int" =>
        LET merged == BlockOf(last.h).merged_config
            c == cfgs[last.h].iteration_cursor
            direct == Declared(merged, cfgs[last.h].prefix \o last.name, c)
        IN last.out = IF ~IsErr(direct) \/ last.fallback = None THEN direct
                      ELSE Declared(merged, last.fallback, c)

\* the name is declared, but only after the cursor, and the fallback answers
C7_Witness ==
    /\ last.op = "get_int"
    /\ last.fallback # None
    /\ DefiningTimesteps(BlockOf(last.h).merged_config, last.name,
                         cfgs[last.h].iteration_cursor) = {}
    /\ DefiningTimesteps(BlockOf(last.h).merged_config, last.name, MaxTimestep) # {}
    /\ last.out = Declared(BlockOf(last.h).merged_config, last.fallback,
                           cfgs[last.h].iteration_cursor)
    /\ IsLeaf(last.out)

---------------------------------------------------------------------------
(* C8, C9 *)

\* C8: get_int(k) on p.get_with_prefix(s) has the outcome of p.get_int(s/k), for
\* every preset or view p; so on p.get_with_prefix(a).get_with_prefix(b) it has the
\* outcome of p.get_with_prefix(a).get_int(b/k), which is that of p.get_int(a/b/k)
C8_PrefixScoping ==
    [][\A h \in Bound, s \in Prefixes, v \in {x \in {Handles[i] : i \in DOMAIN Handles} :
                                                 x \notin Bound} :
          (GetWithPrefix(h, s) /\ v \in DOMAIN cfgs') =>
              \A k \in ViewNames : get_int(v, k, None)' = get_int(h, s \o k, None)]_vars

\* a value read through a view of a view
C8_Witness ==
    /\ last.op = "get_int"
    /\ cfgs[last.h].prefix = <<"a", "b">>
    /\ \E x \in Bound : cfgs[x].prefix = <<"a">>
    /\ last.name = <<"n">>
    /\ last.out = Leaf(2)

\* C9: a preset that inherits from an updated preset, directly or transitively,
\* answers the next get_int of a key it inherits with the value the nearest base
\* defining the key has now
C9_DownstreamRederived ==
    (last.op = "get_int" /\ IsChain(last.h)) =>
        LET chain == ChainOf(last.h)
            defs == Definers(chain, last.name)
        IN (defs # {} /\ 1 \notin defs) =>
               last.out = At(OwnConfig(chain[MostDerived(chain, last.name)]), last.name)

---------------------------------------------------------------------------
(* C3 *)

DocumentOf(documents, u) == documents[CHOOSE i \in DOMAIN documents : documents[i].uuid = u]

Declared_uuids(documents) == {documents[i].uuid : i \in DOMAIN documents}

NamesAsBase(documents, u, v) ==
    \E j \in DOMAIN DocumentOf(documents, u).base : DocumentOf(documents, u).base[j] = v

\* v is reached from u along at most n base references
RECURSIVE ReachesIn(_, _, _, _)
ReachesIn(documents, u, v, n) ==
    /\ n > 0
    /\ \/ NamesAsBase(documents, u, v)
       \/ \E w \in Declared_uuids(documents) :
             NamesAsBase(documents, u, w) /\ ReachesIn(documents, w, v, n - 1)

Cyclic(documents) ==
    \E u \in Declared_uuids(documents) : ReachesIn(documents, u, u, Len(documents))

AllBasesDeclared(documents) ==
    \A i \in DOMAIN documents : \A j \in DOMAIN documents[i].base :
       documents[i].base[j] \in Declared_uuids(documents)

\* C3: loading documents, all of whose bases exist, in which a base chain leads
\* back to its preset raises the cycle error and leaves no manager
C3_CycleRejected ==
    (mgr.documents # <<>> /\ AllBasesDeclared(mgr.documents) /\ Cyclic(mgr.documents)) =>
        (~mgr.loaded /\ mgr.raised = CycleError)

---------------------------------------------------------------------------
(* C10 *)

\* what the preset defines at timestep t: for a preset that is not dynamic, its
\* flat config at timestep 0
DefinedAt(pr, t) ==
    IF pr.dynamic THEN GetOrEmpty(pr.data.config, TimestepKey(t))
    ELSE IF t = 0 THEN pr.data.config ELSE EmptyDict

\* C10: set_config_at_timestep(new, t) keeps the value of every key the preset
\* defined at t that new does not mention, also for a preset that is not dynamic
\* and t = 0
C10_MergeNeverReplaces ==
    [][\A new_config \in NewConfigs, t \in Timesteps :
          (SetConfigAtTimestep(new_config, t) /\ ~IsErr(last'.out)) =>
              \A n \in Names :
                 (IsLeaf(At(DefinedAt(preset, t), n)) /\ At(new_config, n).kind = "absent") =>
                     At(DefinedAt(preset, t), n)' = At(DefinedAt(preset, t), n)]_vars

---------------------------------------------------------------------------
(* C6 *)

\* the value h's own document gives name at h's cursor
OwnValue(h, name) ==
    IF IsDynamicDoc(h) THEN Declared(OwnConfig(h), name, cfgs[h].iteration_cursor)
    ELSE At(OwnConfig(h), name)

\* C6: in a preset with several bases, get_int of a key its own document defines
\* returns the own value, whatever the bases define and in whatever order
C6_OwnKeyWins ==
    (/\ last.op = "get_int"
     /\ Len(BaseHandles(last.h)) >= 2
     /\ Derived(last.h)
     /\ IsLeaf(OwnValue(last.h, last.name))) =>
        last.out = OwnValue(last.h, last.name)

\* the same of presets whose document is flat
C6_FlatOwnKeyWins ==
    (last.op = "get_int" /\ ~IsDynamicDoc(last.h)) => C6_OwnKeyWins

---------------------------------------------------------------------------
(* C11 *)

DeclareSameUuid(documents) ==
    \E i, j \in DOMAIN documents :
       i # j /\ documents[i].uuid # NoUuid /\ documents[i].uuid = documents[j].uuid

\* C11: a load of documents two of which declare the same uuid fails with the
\* duplicate-identifier error, whatever their files and positions; a load in
\* which no two documents declare the same uuid never fails with it, however
\* many documents declare none
C11_DuplicateUuidRejected ==
    mgr.documents # <<>> =>
        IF DeclareSameUuid(mgr.documents)
        THEN ~mgr.loaded /\ mgr.raised = DuplicateError
        ELSE mgr.raised # DuplicateError

\* the two declarations lie in different files with a document without uuid
\* between them, and the first document names a base
C11_Witness ==
    /\ Len(mgr.documents) = 3
    /\ mgr.documents[1].uuid = "A" /\ mgr.documents[1].base # <<>>
    /\ mgr.documents[2].uuid = NoUuid
    /\ mgr.documents[3].uuid = "A"
    /\ mgr.documents[1].file # mgr.documents[3].file
    /\ mgr.raised = DuplicateError

\* two documents without a uuid load side by side
C11_FreshUuidsLoaded ==
    /\ mgr.loaded
    /\ Len(mgr.documents) = 3
    /\ \A i \in DOMAIN mgr.documents : mgr.documents[i].uuid = NoUuid
    /\ Len(mgr.configs) = 3

---------------------------------------------------------------------------
(* C12 *)

\* the lines of the file behind the last line of dashes: those written since
\* the logger in use was made
RECURSIVE SinceInstalled(_)
SinceInstalled(file) ==
    IF file = <<>> \/ file[Len(file)] = Dashes THEN <<>>
    ELSE Append(SinceInstalled(SubSeq(file, 1, Len(file) - 1)), file[Len(file)])

LinesOf(file, path) == SelectSeq(file, LAMBDA l : l.name = path)

\* C12: a successful lookup of a path on a block with a logger writes one
\* "Using" line when no line was written for the path since the logger was
\* installed, nothing when the value is the one the last line for the path
\* reports, and otherwise one "Switching" line from the value last reported to
\* the value found
C12_ChangeLogging ==
    [][\A h \in Bound, name \in {<<k>> : k \in Keys}, fallback \in Fallbacks :
          (/\ GetInt(h, name, fallback)
           /\ BlockOf(h).logger # None
           /\ ~IsErr(last'.out))
          => LET path == cfgs[h].prefix \o name
                 mine == LinesOf(SinceInstalled(logfile), path)
             IN IF mine = <<>>
                THEN logfile' = Append(logfile, [line |-> "Using", name |-> path,
                                                 old |-> last'.out, new |-> last'.out])
                ELSE IF mine[Len(mine)].new = last'.out
                THEN logfile' = logfile
                ELSE logfile' = Append(logfile, [line |-> "Switching", name |-> path,
                                                 old |-> mine[Len(mine)].new,
                                                 new |-> last'.out])]_vars

\* a key was reported, reported again with another value, and then looked up
\* with that value once more
C12_Witness ==
    /\ Len(logfile) = 3
    /\ logfile[1] = Dashes
    /\ logfile[2].line = "Using" /\ logfile[2].name = <<"a">>
    /\ logfile[3].line = "Switching" /\ logfile[3].name = <<"a">>
    /\ logfile[3].old = logfile[2].new /\ logfile[3].new # logfile[3].old
    /\ last.op = "get_int" /\ last.name = <<"a">> /\ last.out = logfile[3].new
    /\ BlockOf(last.h).printed_settings[<<"a">>] = last.out
    /\ cfgs[last.h].iteration_cursor = 0

---------------------------------------------------------------------------
(* C13 *)

\* the block without its logger and with nothing recorded as logged
Unlogged(block) == [block EXCEPT !.logger = None, !.printed_settings = EmptyMap]

---------------------------------------------------------------------------
(* C14, C15 *)

Occurs(s, x) == \E i \in DOMAIN s : s[i] = x

\* what get_int(name) returns or raises on the Configuration self with the block
Answer(self, block, name) ==
    ToInt(_get_value_with_fallback(block, self.prefix \o name, None,
                                   self.iteration_cursor).value)

\* no two registered presets declare the same uuid
DistinctUuids ==
    \A i, j \in DOMAIN mgr.configs :
       UuidOf(mgr.configs[i]) = UuidOf(mgr.configs[j]) => i = j

\* C14: remove_config of a registered preset leaves it in none of the lists and
\* maps, so that its uuid is no longer a key of the map by uuid; every other
\* registered preset, those built over the removed one too, keeps its place
\* among the others in the load-order list and in the list of its file, its
\* entry by uuid and the value every lookup returns
C14_RemoveDoesNotCascade ==
    [][\A h \in Registered :
          (last'.op = "remove_config" /\ last'.h = h /\ DistinctUuids /\ RemoveConfig(h))
          => /\ ~IsErr(last'.out)
             /\ ~Occurs(mgr'.configs, h)
             /\ \A f \in DOMAIN mgr'.configs_by_file : ~Occurs(mgr'.configs_by_file[f], h)
             /\ UuidOf(h) \notin DOMAIN mgr'.configs_by_uuid
             /\ mgr'.configs = SelectSeq(mgr.configs, LAMBDA o : o # h)
             /\ \A f \in DOMAIN mgr.configs_by_file :
                   mgr'.configs_by_file[f] = SelectSeq(mgr.configs_by_file[f], LAMBDA o : o # h)
             /\ \A o \in Registered \ {h} :
                   /\ mgr'.configs_by_uuid[UuidOf(o)] = o
                   /\ cfgs'[o] = cfgs[o]
                   /\ \A k \in Keys :
                         \E after \in {Answer(cfgs'[o], blocks'[cfgs'[o].config], <<k>>)} :
                            after = get_int(o, <<k>>, None)]_vars

\* a preset was removed while a registered preset is built over it and answers
\* with the removed preset's value
C14_Witness ==
    /\ last.op = "remove_config" /\ ~IsErr(last.out)
    /\ ~Occurs(mgr.configs, last.h)
    /\ \E o \in Registered :
          /\ IsBaseOf(last.h, o)
          /\ ~IsErr(get_int(o, <<"a">>, None))
          /\ get_int(o, <<"a">>, None) = get_int(last.h, <<"a">>, None)

\* C15: when add_config has returned, the new preset is the last of the
\* load-order list and the entry of its uuid in the map by uuid, and its
\* declared bases are attached to it
C15_AddConfigRegisters ==
    (last.op = "add_config" /\ ~IsErr(last.out)) =>
        /\ mgr.configs # <<>>
        /\ mgr.configs[Len(mgr.configs)] = last.h
        /\ last.h \in DOMAIN mgr.configs_by_uuid
        /\ mgr.configs_by_uuid[last.h] = last.h
        /\ Len(cfgs[last.h].base_configs.entries) = Len(datas[last.h].base)

\* C15: add_config of a document whose bases are registered returns
C15_AddConfigReturns ==
    (last.op = "add_config" /\ IsErr(last.out)) => last.out = Raise("KeyError")

---------------------------------------------------------------------------
(* C16 *)

\* manager.configs_by_file[file], a file without an entry giving no preset
ByFile(file) ==
    IF file \in DOMAIN mgr.configs_by_file THEN mgr.configs_by_file[file] ELSE <<>>

\* the uuids of the documents read from the file that are not abstract, in the
\* order the documents were read
ActiveOf(file) ==
    SelectSeq(mgr._ordered_configs,
              LAMBDA u : mgr._json_by_uuid[u].file = file /\ ~mgr._json_by_uuid[u].abstract)

\* C16: after a load of documents with distinct uuids whose bases are declared
\* and lead to no cycle, the presets listed for a file are the presets of its
\* documents that are not abstract, in the order the documents were read
C16_ByFileInLoadOrder ==
    (/\ mgr.documents # <<>>
     /\ ~DeclareSameUuid(mgr.documents)
     /\ AllBasesDeclared(mgr.documents)
     /\ ~Cyclic(mgr.documents))
    => /\ mgr.loaded
       /\ \A i \in DOMAIN Files : ByFile(Files[i]) = ActiveOf(Files[i])

---------------------------------------------------------------------------
(* C17 *)

\* the raw value the last call resolved in the flat document of its preset: the
\* value at the name, or at the fallback when the name is not there
Resolved ==
    LET direct == At(OwnConfig(last.h), last.name)
    IN IF ~IsErr(direct) \/ last.fallback = None THEN direct
       ELSE At(OwnConfig(last.h), last.fallback)

\* what the getter can convert
Coercible(op, value) ==
    IF op = "get_list" THEN value.kind = "list" ELSE value.kind \in {"leaf", "numeral"}

\* C17: a typed getter whose key, or fallback, resolves to a value it cannot
\* convert raises TypeError; it raises NotFoundError only when neither resolves,
\* and returns a value otherwise
C17_TypeErrorNotNotFound ==
    last.op \in {"get_int", "get_float", "get_list"} =>
        IF IsErr(Resolved) THEN last.out = Raise("NotFoundError")
        ELSE IF Coercible(last.op, Resolved) THEN ~IsErr(last.out)
        ELSE last.out = Raise("TypeError")

\* get_int found a str that spells no number under the fallback key
C17_Witness ==
    /\ last.op = "get_int" /\ last.name = <<"a", "n">> /\ last.fallback = <<"b">>
    /\ At(OwnConfig(last.h), <<"a">>).kind = "list"
    /\ Resolved.kind = "text"
    /\ last.out = Raise("TypeError")

---------------------------------------------------------------------------
(* C18 *)

\* the other objects keep their cursor and their try number
OthersKeep(h) ==
    \A o \in Bound \ {h} :
       /\ cfgs'[o].iteration_cursor = cfgs[o].iteration_cursor
       /\ cfgs'[o].try_number = cfgs[o].try_number

\* C18: the view get_with_prefix returns has the cursor and the try number its
\* original has at the call; setting either on one object afterwards, view or
\* original, changes it on no other; and every lookup resolves the timesteps
\* up to the cursor of the object it is made on
C18_ViewCursorIndependent ==
    [][/\ \A h \in Bound :
             GetWithPrefix(h, <<"b">>) =>
                /\ cfgs'[last'.h].iteration_cursor = cfgs[h].iteration_cursor
                /\ cfgs'[last'.h].try_number = cfgs[h].try_number
                /\ OthersKeep(last'.h)
       /\ \A h \in Bound, c \in 0..1 : SetIterationCursor(h, c) => OthersKeep(h)
       /\ \A h \in Bound, n \in 0..MaxTry : SetTryNumber(h, n) => OthersKeep(h)
       /\ \A h \in Bound, name \in CursorNames :
             GetInt(h, name, None) =>
                /\ last'.out = Declared(OwnConfig(h), cfgs[h].prefix \o name,
                                        cfgs[h].iteration_cursor)
                /\ OthersKeep(h)]_vars

\* a view made at cursor 1 and a later try stayed there while its original
\* went back to cursor 0 and the first try, and the view still reads timestep 1
C18_Witness ==
    /\ last.op = "get_int" /\ last.name = <<"n">>
    /\ cfgs[last.h].prefix = <<"b">>
    /\ cfgs[last.h].iteration_cursor = 1 /\ cfgs[last.h].try_number = 1
    /\ \E o \in Bound :
          /\ cfgs[o].prefix = <<>>
          /\ cfgs[o].iteration_cursor = 0 /\ cfgs[o].try_number = 0
          /\ get_int(o, <<"b", "n">>, None) = Leaf(10)
    /\ last.out = Leaf(11)

---------------------------------------------------------------------------
(* C19 *)

\* C19: whatever is done to one object (clone, update_config, set_logger, a
\* lookup, a move of the cursor), every other object, the one it was cloned
\* from and its own clones included, keeps its attributes, its raw document, its
\* block with the merged config, the logger and the values recorded as logged,
\* and the outcome of its lookups
C19_CloneIndependent ==
    [][\A o \in Bound \ {last'.h} :
          /\ cfgs'[o] = cfgs[o]
          /\ datas'[cfgs[o].data] = datas[cfgs[o].data]
          /\ blocks'[cfgs[o].config] = blocks[cfgs[o].config]
          /\ \E after \in {Answer(cfgs'[o], blocks'[cfgs'[o].config], <<"a">>)} :
                after = get_int(o, <<"a">>, None)]_vars

\* a clone was updated and read with a logger of its own, and the preset it
\* was cloned from, read before with its own logger, has its document, its
\* value and what it logged as before
C19_Witness ==
    /\ last.op = "get_int" /\ last.h = Handles[2]
    /\ Handles[1] \in Bound
    /\ last.out = Leaf(TimestepValue(Handles[2], 0))
    /\ BlockOf(Handles[2]).logger # None
    /\ <<"a">> \in DOMAIN BlockOf(Handles[2]).printed_settings
    /\ BlockOf(Handles[1]).logger # None
    /\ <<"a">> \in DOMAIN BlockOf(Handles[1]).printed_settings
    /\ BlockOf(Handles[1]).printed_settings[<<"a">>] = Leaf(10)
    /\ get_int(Handles[1], <<"a">>, None) = Leaf(10)
    /\ OwnConfig(Handles[1]) # OwnConfig(Handles[2])

---------------------------------------------------------------------------
(* C20 *)

\* Preset.treat_dynamic of the Preset built from h's document, whose base_preset
\* is the Preset of h's base
RECURSIVE Preset_treat_dynamic(_)
Preset_treat_dynamic(h) ==
    \/ IsDynamicDoc(h)
    \/ BaseHandles(h) # <<>> /\ Preset_treat_dynamic(BaseHandles(h)[1])

\* Preset.compose_config(force_dynamic=...) of the same Preset
RECURSIVE compose_config(_, _)
compose_config(h, force_dynamic) ==
    LET config == IF ~IsDynamicDoc(h) /\ (Preset_treat_dynamic(h) \/ force_dynamic)
                  THEN Single("0", OwnConfig(h))
                  ELSE OwnConfig(h)
    IN IF BaseHandles(h) # <<>>
       THEN Preset_deep_update(
                compose_config(BaseHandles(h)[1], force_dynamic \/ IsDynamicDoc(h)),
                config)
       ELSE config

\* C20, as stated: for every loaded preset, flat, dynamic, or flat with a dynamic
\* base, the tree of compose_config is the tree get_merged_config returns
C20_ComposeEqualsMerged ==
    \A h \in Bound : compose_config(h, FALSE) = get_merged_config(h, FALSE)

\* C20, the part that holds: the two trees are the same for chains of flat
\* presets and for a base-less dynamic preset with two or more timesteps
C20_ComposeEqualsMergedFlat ==
    \A h \in Bound :
       (\/ FlatChain(h)
        \/ /\ IsDynamicDoc(h)
           /\ BaseHandles(h) = <<>>
           /\ Cardinality(DOMAIN OwnConfig(h).sub) > 1) =>
          compose_config(h, FALSE) = get_merged_config(h, FALSE)

---------------------------------------------------------------------------
(* C21 *)

\* the documents add_config is called with
AddedDocuments ==
    {RegistryDocument(u, base, file)
     : u \in {NoUuid, "D"}, base \in {<<>>, <<"A">>, <<"Z">>},
       file \in {NoFile, "f.json", "h.json"}}

NamesUnregistered(config_data) ==
    \E i \in DOMAIN config_data.base :
       config_data.base[i] \notin DOMAIN mgr.configs_by_uuid

\* C21: add_config of a document one of whose bases is not registered raises,
\* and the load-order list, the map by uuid and the lists by file are after the
\* call what they were before it
C21_FailedAddLeavesIndexes ==
    [][\A config_data \in AddedDocuments :
          (/\ last'.op = "add_config"
           /\ mgr.loaded
           /\ NamesUnregistered(config_data)
           /\ AddConfig(config_data, config_data.file))
          => /\ IsErr(last'.out)
             /\ mgr'.configs = mgr.configs
             /\ mgr'.configs_by_uuid = mgr.configs_by_uuid
             /\ mgr'.configs_by_file = mgr.configs_by_file]_vars

\* add_config has failed on a base that was registered and then removed, while
\* other presets are registered
C21_Witness ==
    /\ last.op = "add_config"
    /\ last.out = Raise("KeyError")
    /\ mgr.configs # <<>>
    /\ "A" \notin DOMAIN mgr.configs_by_uuid

---------------------------------------------------------------------------
(* C22 *)

\* how often create_config ran for the uuid: each run appends to the list of
\* the document's file
RECURSIVE CountIn(_, _)
CountIn(s, x) ==
    IF s = <<>> THEN 0 ELSE (IF Head(s) = x THEN 1 ELSE 0) + CountIn(Tail(s), x)

Builds(u) == CountIn(ByFile(mgr._json_by_uuid[u].file), mgr.configs_by_uuid[u])

\* the documents name only declared bases and no base chain leads back
Loadable(documents) ==
    documents # <<>> /\ AllBasesDeclared(documents) /\ ~Cyclic(documents)

\* C22, as stated: the load of documents that name bases builds every document
\* into a preset exactly once, and each preset that names a base holds, at that
\* place of its bases, the preset the map by uuid returns for the base
C22_BuiltOnceAndShared ==
    Loadable(mgr.documents) =>
        /\ mgr.loaded
        /\ \A u \in Declared_uuids(mgr.documents) :
              /\ u \in DOMAIN mgr.configs_by_uuid
              /\ Builds(u) = 1
              /\ Len(BaseHandles(mgr.configs_by_uuid[u])) = Len(mgr._json_by_uuid[u].base)
              /\ \A j \in DOMAIN mgr._json_by_uuid[u].base :
                    BaseHandles(mgr.configs_by_uuid[u])[j] =
                        mgr.configs_by_uuid[mgr._json_by_uuid[u].base[j]]

\* C22, the part that holds: a load that completes has built every document
\* exactly once
C22_LoadedBuiltOnce ==
    mgr.loaded =>
        \A u \in Declared_uuids(mgr.documents) :
           u \in DOMAIN mgr.configs_by_uuid /\ Builds(u) = 1

---------------------------------------------------------------------------
(* C23 *)

\* what the base b gives its heirs: timestep "0" of its merged tree
BaseTree(b) == GetOrEmpty(get_merged_config(b, TRUE), "0")

\* the places, among h's bases, of those that define name
BaseDefiners(h, name) ==
    {j \in DOMAIN BaseHandles(h) : IsLeaf(At(BaseTree(BaseHandles(h)[j]), name))}

LastOf(S) == CHOOSE j \in S : \A i \in S : i <= j

\* a lookup of a key the preset's own document does not define, on a preset
\* whose merge over its bases completed
InheritedLookup ==
    /\ last.op = "get_int"
    /\ last.fallback = None
    /\ BaseHandles(last.h) # <<>>
    /\ Derived(last.h)
    /\ ~IsLeaf(OwnValue(last.h, last.name))

C23_HiddenByLaterBase ==
    /\ InheritedLookup
    /\ Len(BaseHandles(last.h)) = 2
    /\ BaseDefiners(last.h, last.name) = {1}
    /\ At(BaseTree(BaseHandles(last.h)[2]), last.name).kind = "leaf-on-path"
    /\ last.out = Raise("NotFoundError")

---------------------------------------------------------------------------
(* C24 *)

\* the rule for one argument: a str that is the token alone becomes the
\* argument's JSON value, or the argument itself when it is no JSON; any other
\* str has the token replaced; a value that is no str stays
RuleArg(value, i, arg) ==
    IF value.kind \notin StrKinds THEN value
    ELSE IF value.kind = "str" /\ value.sub = <<Template(i)>>
    THEN (IF json_loads(arg.sub).kind = "ValueError" THEN arg ELSE json_loads(arg.sub))
    ELSE IF value.kind = "str" THEN Str(Replace(value.sub, Template(i), arg.sub))
    ELSE value

RECURSIVE RuleArgsFrom(_, _, _)
RuleArgsFrom(value, args, i) ==
    IF i >= Len(args) THEN value
    ELSE RuleArgsFrom(RuleArg(value, i, args[i + 1]), args, i + 1)

\* the rule applied to every leaf of a base layer
RECURSIVE RuleTree(_, _)
RuleTree(tree, args) ==
    IF IsDict(tree) THEN Dict([k \in DOMAIN tree.sub |-> RuleTree(tree.sub[k], args)])
    ELSE RuleArgsFrom(tree, args, 0)

AllStrs(args) == \A i \in DOMAIN args : args[i].kind = "str"

\* C24, as stated: the merge of a base layer with any number of str arguments
\* completes; every str leaf of the layer that is a token alone holds the
\* argument's JSON value, or the argument itself when it is no JSON, every
\* other str leaf has the tokens replaced by the arguments, and the leaves of
\* the own config are as they were
C24_TemplateSubstitution ==
    (mResult.done /\ AllStrs(mLayers[1].args)) =>
        mResult.out = RuleMerge(RuleTree(mLayers[1].tree, mLayers[1].args), mLayers[2].tree)

\* C24, the part that holds: the same with no argument, or one that is not the
\* text null
C24_OneArgumentSubstituted ==
    (/\ mResult.done
     /\ AllStrs(mLayers[1].args)
     /\ Len(mLayers[1].args) <= 1
     /\ \A i \in DOMAIN mLayers[1].args : mLayers[1].args[i] # Str(<<"null">>)) =>
        mResult.out = RuleMerge(RuleTree(mLayers[1].tree, mLayers[1].args), mLayers[2].tree)

---------------------------------------------------------------------------
(* C25 *)

\* the callers between acquiring and releasing the mutex
Writing == {c \in Callers : logging.pc[c] \in {"write", "flush", "release"}}

\* C25: of the callers that log through a root logger and the loggers made from
\* it by get_with_module, at most one at a time is between acquiring and
\* releasing the mutex, and what it flushes is its own line and no other
C25_MutualExclusion ==
    /\ Cardinality(Writing) <= 1
    /\ \A c \in Callers :
          logging.pc[c] = "flush" => logging.buffer = <<logging.line[c]>>
    /\ \A c \in Writing : Holder(logging.mutex, RootLogger) = c

\* one caller is about to flush its line, logged through a logger made by
\* get_with_module from another such logger, while the other caller, logging
\* through the root logger, waits for the mutex
C25_Witness ==
    \E c, d \in Callers :
       /\ logging.pc[c] = "flush"
       /\ logging.pc[d] = "acquire"
       /\ logging.sink[c] = RootLogger /\ logging.sink[d] = RootLogger
       /\ \E l \in ModuleNames : l \in DOMAIN logging.parent /\ logging.parent[l] \in ModuleNames
       /\ Len(logfile) >= 2

---------------------------------------------------------------------------
(* C28 *)

\* C28, as stated: a caller waiting for the mutex gets it, and every call of
\* log returns, also when a write or a flush has failed
C28_WaitersAcquire ==
    \A c \in Callers :
       /\ (logging.pc[c] = "acquire") ~> (logging.pc[c] = "write")
       /\ (logging.pc[c] # "idle") ~> (logging.pc[c] = "idle")

\* C28, its first part: a call of log that has ended holds no mutex
C28_ReleasedAtReturn ==
    \A c \in Callers :
       logging.pc[c] = "idle" => Holder(logging.mutex, RootLogger) # c

\* C28, the part that holds: while no write and no flush has failed, a call
\* that has ended holds no mutex
C28_ReleasedUnlessFailed ==
    (\A c \in Callers : ~logging.raised[c]) => C28_ReleasedAtReturn

---------------------------------------------------------------------------
(* C26 *)

\* the presets configs_by_uuid maps their own uuid to
ByUuid == {h \in Bound : /\ UuidOf(h) \in DOMAIN mgr.configs_by_uuid
                         /\ mgr.configs_by_uuid[UuidOf(h)] = h}

\* the presets in the list configs_by_file keeps for their file
InFileList == {h \in Bound : /\ cfgs[h].file \in DOMAIN mgr.configs_by_file
                             /\ IndexOf(mgr.configs_by_file[cfgs[h].file], h) > 0}

\* C26: after the load and after every add_config and remove_config, a document
\* of a registered uuid added included, the list in load order, the index by
\* uuid and the lists by file hold the same presets, and no two presets in the
\* list have the same uuid.
C26_IndexesAgree ==
    mgr.loaded =>
       /\ Registered = ByUuid
       /\ Registered = InFileList
       /\ \A i, j \in DOMAIN mgr.configs :
             UuidOf(mgr.configs[i]) = UuidOf(mgr.configs[j]) => i = j

\* C26, the part that holds: the indexes agree while every object was made from
\* a uuid no object had before
C26_AgreeWithoutTwins ==
    (\A h \in Bound : UuidOf(h) = h) => C26_IndexesAgree

---------------------------------------------------------------------------
(* C27 *)

\* the documents hold a diamond: a preset with two bases, one of them a base of
\* the other
Diamond(documents) ==
    \E u, v, w \in Declared_uuids(documents) :
       /\ v # w
       /\ NamesAsBase(documents, u, v)
       /\ NamesAsBase(documents, u, w)
       /\ NamesAsBase(documents, v, w)

\* C27, as stated: the load of documents whose bases are all declared and lead
\* along no cycle, diamonds and bases declared after their heirs included,
\* succeeds, and the cycle error is raised only for documents with a cycle.
C27_AcyclicLoads ==
    /\ Loadable(mgr.documents) => mgr.loaded /\ mgr.raised = ""
    /\ mgr.raised = CycleError => Cyclic(mgr.documents)

\* C27, the part that holds: the cycle error is raised only for documents in
\* which a base chain leads back to its preset
C27_CycleErrorOnlyOnCycle ==
    mgr.raised = CycleError => Cyclic(mgr.documents)

\* C27: an acyclic diamond was loaded and the load ended with another error than
\* the cycle error
C27_DiamondNotCycle ==
    /\ Loadable(mgr.documents)
    /\ Diamond(mgr.documents)
    /\ mgr.raised \notin {"", CycleError}

---------------------------------------------------------------------------
(* C29 *)

\* the outcome of get_int on the preset or view h for the key at path
ScopedOutcome(h, path) ==
    ToInt(_get_value(path, cfgs[h].iteration_cursor, BlockOf(h).merged_config))

\* the last call was get_int with a fallback on a view with a prefix, and the
\* key under the prefix is not to be found
FellBack ==
    /\ last.op = "get_int"
    /\ last.fallback # None
    /\ cfgs[last.h].prefix # <<>>
    /\ ScopedOutcome(last.h, cfgs[last.h].prefix \o last.name).kind = "NotFoundError"

\* C29: a getter called with a name and a fallback on a view with the prefix s,
\* where s + name is not to be found, has the outcome of the lookup of
\* s + fallback, not that of the fallback without the prefix.
C29_FallbackScoped ==
    FellBack => last.out = ScopedOutcome(last.h, cfgs[last.h].prefix \o last.fallback)

\* C29, what holds instead: the outcome is that of the lookup of the fallback as
\* the caller gave it
C29_FallbackAsGiven ==
    FellBack => last.out = ScopedOutcome(last.h, last.fallback)

\* C29: the lookup fell back and the key of the fallback stands both at the top
\* and under the prefix
C29_BothFallbacksStored ==
    /\ FellBack
    /\ ~IsErr(ScopedOutcome(last.h, last.fallback))
    /\ ~IsErr(ScopedOutcome(last.h, cfgs[last.h].prefix \o last.fallback))

---------------------------------------------------------------------------
(* C30 *)

\* v is a view of p with a prefix of its own: it was made from p by
\* get_with_prefix and has p's data and p's cursor
ViewsOf(p) ==
    {v \in Bound \ {p} : /\ cfgs[p].prefix = <<>>
                         /\ cfgs[v].prefix # <<>>
                         /\ cfgs[v].data = cfgs[p].data
                         /\ cfgs[v].iteration_cursor = cfgs[p].iteration_cursor}

\* C30: after update_config on a preset p, a view v = p.get_with_prefix(s) made
\* before the update, with p's cursor, answers get_int(k) as p answers
\* get_int(s/k): with the updated value.
C30_ViewFollowsUpdate ==
    (last.op = "update_config" /\ ~IsErr(last.out)) =>
        \A v \in ViewsOf(last.h), name \in FollowNames :
           get_int(v, name, None) = get_int(last.h, cfgs[v].prefix \o name, None)

\* C30, what holds instead: update_config on p leaves every other object with
\* the block it had, unchanged
C30_ViewsKeepTheirBlock ==
    [][last'.op = "update_config" =>
          \A v \in Bound \ {last'.h} :
             /\ cfgs'[v].config = cfgs[v].config
             /\ blocks'[cfgs[v].config] = blocks[cfgs[v].config]]_vars

\* C30: a preset with a view was updated and the two hold different blocks
C30_ViewLeftBehind ==
    /\ last.op = "update_config"
    /\ ~IsErr(last.out)
    /\ \E v \in ViewsOf(last.h) : cfgs[v].config # cfgs[last.h].config

====
